---- MODULE Spec2Model ----
(***************************************************************************)
(* Model of the recommendation engine: CFRecommender (latent-factor        *)
(* scoring, cold start, top-n selection), ContentRecommender (TF-IDF       *)
(* profiles and cosine similarity) and HybridRecommender (blending); of    *)
(* the API process that serves them (startup, the four recommendation      *)
(* endpoints, the poster cache shared by the request threads); and of the  *)
(* training job that builds the CF model, with the readers of its source   *)
(* files, and of the ingest job that fills the MovieLens-to-TMDB mapping.  *)
(*                                                                         *)
(* Arithmetic is exact: float32/float64 values are modelled by integers    *)
(* and rationals, extended with the IEEE values -inf, +inf and NaN that    *)
(* the code produces on purpose (the -inf exclusion sentinel) or by        *)
(* accident.  Arrays keep the 0-based positions of the source.             *)
(***************************************************************************)
EXTENDS Integers, Sequences, FiniteSets, TLC

\* ------------------------------------------------------------------ bounds
\* number of items of the CF model (columns of item_factors)
NumItems == 3
\* largest result count n a caller asks for (the smallest is -1)
MaxN == 4
\* number of rows of the content matrix
NumContent == 3
\* HybridConfig.candidate_k of the recommender under test
CandidateK == 2
\* longest list of candidate ids handed to similarity_to_profile
MaxCandidates == 3
\* SEED_HYBRID_CANDIDATE_K of the API process under test
SeedCandidateK == 2
\* number of request threads that run _poster_url_for_tmdb at the same time
NumThreads == 2
\* largest number of rating rows a training job reads
MaxRatings == 3
\* largest number of data rows in a source file that a job reads
MaxRows == 3

VARIABLES
    cf,        \* the loaded CFRecommender (fields of recommender.py:15-31)
    content,   \* the loaded ContentRecommender (fields of content.py:17-20)
    profile,   \* the content profile owned by the current request
    ret,       \* the last call: its arguments and what it returned
    server,    \* the module globals of the API process (main.py:33-37)
    calls,     \* the _poster_url_for_tmdb calls in progress, one per thread
    train,     \* the training job: its rating rows and what it has built
    ingest     \* the ingest job: its position in the movies file, its
               \* counters and the two tables it writes

vars == <<cf, content, profile, ret, server, calls, train, ingest>>

\* ------------------------------------------------- extended real numbers
\* A value n/d (d > 0), a cosine n/sqrt(d) (n >= 0, d > 0; see Cos), or one
\* of the IEEE specials.
Fin(x) == [k |-> "fin", n |-> x, d |-> 1]
Rat(x, y) == [k |-> "fin", n |-> x, d |-> y]
NegInf == [k |-> "ninf", n |-> 0, d |-> 1]
PosInf == [k |-> "pinf", n |-> 0, d |-> 1]
NaN == [k |-> "nan", n |-> 0, d |-> 1]

\* a <= b on IEEE values: every comparison with NaN is false
LE(a, b) ==
    IF a.k = "nan" \/ b.k = "nan" THEN FALSE
    ELSE IF a.k = "ninf" \/ b.k = "pinf" THEN TRUE
    ELSE IF a.k = "pinf" \/ b.k = "ninf" THEN FALSE
    ELSE IF a.k = "cos" /\ b.k = "cos" THEN a.n * a.n * b.d <= b.n * b.n * a.d
    ELSE a.n * b.d <= b.n * a.d

\* a = b on IEEE values (NaN differs from everything, itself included)
EQ(a, b) == LE(a, b) /\ LE(b, a)

LT(a, b) == LE(a, b) /\ ~LE(b, a)

MinInt(a, b) == IF a <= b THEN a ELSE b

\* ---------------------------------------------------------- CF artifacts
ItemIdx == 0 .. (NumItems - 1)

\* external movie ids of the CF item space, by dense position
MovieIdOf == [i \in ItemIdx |-> ToString(i + 1)]

KnownUser == "u1"
UnknownUser == "u9"
UserIds == {KnownUser, UnknownUser}

\* rows of user_factors and columns of item_factors (rank 2)
UserFactorRows == {<<1, 0>>, <<-1, 1>>}
ItemFactorCols == {<<0, 1>>, <<1, 0>>}
MeanVals == {2, 3}

\* the sorted lists of item positions that rated_items can hold
RECURSIVE SetToSortedSeq(_)
SetToSortedSeq(S) ==
    IF S = {} THEN <<>>
    ELSE LET m == CHOOSE x \in S : \A y \in S : x <= y
         IN <<m>> \o SetToSortedSeq(S \ {m})

\* the model dict that CFRecommender.__init__ reads, for one known user
CFModel(uf, itf, im, rs) ==
    [ user_index   |-> [u \in {KnownUser} |-> 0],
      item_index   |-> [mid \in {MovieIdOf[i] : i \in ItemIdx} |->
                           CHOOSE i \in ItemIdx : MovieIdOf[i] = mid],
      index_item   |-> MovieIdOf,
      user_factors |-> [u \in {0} |-> uf],
      item_factors |-> itf,
      user_means   |-> [u \in {0} |-> 3],
      item_means   |-> im,
      global_mean  |-> 3,
      rated_items  |-> [u \in {0} |-> SetToSortedSeq(rs)] ]

\* the loaded models: every choice of factors and rated items (with equal item
\* means), and every choice of item means (with equal factors)
CFModels ==
    { CFModel(uf, itf, [i \in ItemIdx |-> 3], rs) :
        uf \in UserFactorRows, itf \in [ItemIdx -> ItemFactorCols],
        rs \in SUBSET ItemIdx }
    \cup
    { CFModel(<<1, 0>>, [i \in ItemIdx |-> <<1, 0>>], im, {}) :
        im \in [ItemIdx -> MeanVals] }

\* ------------------------------------------------------ top-n selection
RECURSIVE Dot(_, _)
Dot(a, b) ==
    IF a = <<>> THEN 0 ELSE Head(a) * Head(b) + Dot(Tail(a), Tail(b))

\* every order in which the positions of S can be listed
RECURSIVE Orderings(_)
Orderings(S) ==
    IF S = {} THEN {<<>>}
    ELSE UNION { { <<x>> \o c : c \in Orderings(S \ {x}) } : x \in S }

\* np.argpartition(-scores, n - 1)[:n]: the n positions with the highest
\* scores; numpy leaves the order inside the partition unspecified and only
\* places the kth element (the lowest selected score) at position n - 1.
ArgPartition(scores, n) ==
    LET idx == DOMAIN scores
        tops == { S \in SUBSET idx :
                    /\ Cardinality(S) = n
                    /\ \A i \in S : \A j \in idx \ S : LE(scores[j], scores[i]) }
    IN UNION { { c \in Orderings(S) : \A i \in 1 .. n : LE(scores[c[n]], scores[c[i]]) } :
               S \in tops }

\* insert x after every element whose key is >= the key of x
RECURSIVE InsertDesc(_, _, _)
InsertDesc(x, s, scores) ==
    IF s = <<>> THEN <<x>>
    ELSE IF LE(scores[x], scores[Head(s)])
         THEN <<Head(s)>> \o InsertDesc(x, Tail(s), scores)
         ELSE <<x>> \o s

\* insert x after every element whose key is <= the key of x
RECURSIVE InsertAsc(_, _, _)
InsertAsc(x, s, scores) ==
    IF s = <<>> THEN <<x>>
    ELSE IF LE(scores[Head(s)], scores[x])
         THEN <<Head(s)>> \o InsertAsc(x, Tail(s), scores)
         ELSE <<x>> \o s

\* the sort without reverse=True
RECURSIVE SortedAsc(_, _)
SortedAsc(c, scores) ==
    IF c = <<>> THEN <<>>
    ELSE InsertAsc(c[Len(c)], SortedAsc(SubSeq(c, 1, Len(c) - 1), scores), scores)

\* sorted(candidate_idx, key=lambda idx: scores[idx], reverse=True): a
\* stable sort, so equal keys keep the order of candidate_idx
RECURSIVE SortedDesc(_, _)
SortedDesc(c, scores) ==
    IF c = <<>> THEN <<>>
    ELSE InsertDesc(c[Len(c)], SortedDesc(SubSeq(c, 1, Len(c) - 1), scores), scores)

\* _top_indices with n clamped to the number of scores above -inf
TopIndicesOfUnmasked(scores, n) ==
    IF Cardinality(DOMAIN scores) = 0 THEN {<<>>}
    ELSE LET m == MinInt(n, Cardinality({i \in DOMAIN scores :
                                           scores[i] # NegInf}))
         IN { SortedDesc(c, scores) : c \in ArgPartition(scores, m) }

\* CFRecommender._top_indices: every list the call can return
TopIndices(scores, n) ==
    IF Cardinality(DOMAIN scores) = 0 THEN {<<>>}
    ELSE LET m == MinInt(n, Cardinality(DOMAIN scores))
         IN { SortedDesc(c, scores) : c \in ArgPartition(scores, m) }

\* ------------------------------------------------- CFRecommender.recommend
\* an early return that lets n = 0 through
EarlyReturnNegativeOnly(n) == n < 0

\* the guard of the early return: if n <= 0: return []
EarlyReturn(n) == n <= 0

\* scores = user_factors[u] @ item_factors + user_means[u]
RawScores(m, uidx) ==
    [i \in DOMAIN m.item_factors |->
        Fin(Dot(m.user_factors[uidx], m.item_factors[i]) + m.user_means[uidx])]

\* rated_items.get(user_idx, [])
RatedOf(m, uidx) ==
    IF uidx \in DOMAIN m.rated_items THEN m.rated_items[uidx] ELSE <<>>

\* for item_idx in rated: scores[item_idx] = -np.inf
RECURSIVE MaskRated(_, _)
MaskRated(scores, rated) ==
    IF rated = <<>> THEN scores
    ELSE MaskRated([scores EXCEPT ![Head(rated)] = NegInf], Tail(rated))

\* the score array that reaches _top_indices for a known user
UserScores(m, uidx, exclude_rated) ==
    IF exclude_rated THEN MaskRated(RawScores(m, uidx), RatedOf(m, uidx))
    ELSE RawScores(m, uidx)

\* scores = np.array(self.item_means)
ColdScores(m) == [i \in DOMAIN m.item_means |-> Fin(m.item_means[i])]

\* no profile: before a call, and the None of profile_from_movie_ids
NoProfile == [k |-> "none", v |-> <<>>, d2 |-> 1]

\* what a caller holds between two calls
NoRet ==
    [op |-> "none", user |-> "", n |-> 0, exclude |-> FALSE, args |-> <<>>,
     input |-> <<>>, outcome |-> "none", items |-> <<>>, ids |-> <<>>,
     scores |-> <<>>, scored |-> FALSE, path |-> "none", map |-> {},
     status |-> 0, detail |-> "", content_scores |-> <<>>, cf_scores |-> <<>>,
     posters |-> <<>>]

\* the list of {"movie_id": index_item[idx], "score": scores[idx]} entries
Result(op, user, n, exclude, path, top, scores, scored) ==
    [NoRet EXCEPT !.op = op, !.user = user, !.n = n, !.exclude = exclude,
                  !.outcome = "ok", !.items = top,
                  !.ids = [p \in DOMAIN top |-> cf.index_item[top[p]]],
                  !.scores = [p \in DOMAIN top |-> scores[top[p]]],
                  !.scored = scored, !.path = path]

\* a caller is between two calls: it holds no returned value
Idle == ret = NoRet /\ profile = NoProfile

\* a recommend that accumulates the scores of a known user in item_means
\* itself instead of a new array
RecommendInPlace(user_id, n, exclude_rated) ==
    /\ Idle
    /\ IF EarlyReturn(n)
       THEN /\ ret' = Result("recommend", user_id, n, exclude_rated, "empty",
                             <<>>, <<>>, FALSE)
            /\ UNCHANGED cf
       ELSE IF user_id \notin DOMAIN cf.user_index
       THEN \E scores \in {ColdScores(cf)} :
            \E top \in TopIndices(scores, n) :
              /\ ret' = Result("recommend", user_id, n, exclude_rated, "cold",
                               top, scores, TRUE)
              /\ UNCHANGED cf
       ELSE \E scores \in {UserScores(cf, cf.user_index[user_id], exclude_rated)} :
            \E top \in TopIndices(scores, n) :
              /\ ret' = Result("recommend", user_id, n, exclude_rated, "known",
                               top, scores, TRUE)
              /\ cf' = [cf EXCEPT !.item_means =
                           [i \in DOMAIN cf.item_means |->
                               RawScores(cf, cf.user_index[user_id])[i].n]]
    /\ UNCHANGED <<content, profile, server, calls, train, ingest>>

Recommend(user_id, n, exclude_rated) ==
    /\ Idle
    /\ IF EarlyReturn(n)
       THEN ret' = Result("recommend", user_id, n, exclude_rated, "empty",
                          <<>>, <<>>, FALSE)
       ELSE IF user_id \notin DOMAIN cf.user_index
       THEN \E scores \in {ColdScores(cf)} :
            \E top \in TopIndices(scores, n) :
              ret' = Result("recommend", user_id, n, exclude_rated, "cold",
                            top, scores, TRUE)
       ELSE \E scores \in {UserScores(cf, cf.user_index[user_id], exclude_rated)} :
            \E top \in TopIndices(scores, n) :
              ret' = Result("recommend", user_id, n, exclude_rated, "known",
                            top, scores, TRUE)
    /\ UNCHANGED <<cf, content, profile, server, calls, train, ingest>>

\* ------------------------------------------------------ ContentRecommender
ContentIdx == 0 .. (NumContent - 1)

\* movie ids of the content index, by row
ContentIdOf == [i \in ContentIdx |-> i + 1]

\* a movie id that no index holds
UnknownMovie == 9

\* TF-IDF rows over a vocabulary of two terms; <<0, 0>> is an item without text
TfidfRows == {<<0, 0>>, <<1, 0>>, <<1, 1>>}

RECURSIVE SumSq(_)
SumSq(v) == IF v = <<>> THEN 0 ELSE Head(v) * Head(v) + SumSq(Tail(v))

\* sklearn normalize() of the row v / den: the vector v / sqrt(d2).  A zero
\* norm is replaced by 1 before the division, so a zero row stays zero.
\* the mean returned as it is, never divided by its norm
NormalizeNoScale(v, den) == [k |-> "vec", v |-> v, d2 |-> den * den]

Normalize(v, den) ==
    IF SumSq(v) = 0 THEN [k |-> "vec", v |-> v, d2 |-> den * den]
    ELSE [k |-> "vec", v |-> v, d2 |-> SumSq(v)]

\* the squared L2 norm of a vector v / sqrt(d2), as the fraction <<num, den>>
NormSq(p) == <<SumSq(p.v), p.d2>>

\* {movie_id: idx for idx, movie_id in enumerate(movie_ids)}: the last row of
\* an id wins
MovieIndex(movie_ids) ==
    [mid \in {movie_ids[i] : i \in DOMAIN movie_ids} |->
        CHOOSE i \in DOMAIN movie_ids :
            /\ movie_ids[i] = mid
            /\ \A j \in DOMAIN movie_ids : movie_ids[j] = mid => j <= i]

\* ContentRecommender.__init__
ContentRecommenderInit(matrix, movie_ids) ==
    [matrix      |-> matrix,
     movie_ids   |-> movie_ids,
     movie_index |-> MovieIndex(movie_ids),
     matrix_norm |-> [i \in DOMAIN matrix |-> Normalize(matrix[i], 1)]]

ContentModels ==
    { ContentRecommenderInit(mx, ContentIdOf) : mx \in [ContentIdx -> TfidfRows] }

\* [self.movie_index.get(mid, 0) for mid in movie_ids]
RECURSIVE KnownIndicesOrFirst(_, _)
KnownIndicesOrFirst(c, ids) ==
    IF ids = <<>> THEN <<>>
    ELSE IF Head(ids) \in DOMAIN c.movie_index
         THEN <<c.movie_index[Head(ids)]>> \o KnownIndicesOrFirst(c, Tail(ids))
         ELSE <<0>> \o KnownIndicesOrFirst(c, Tail(ids))

\* [self.movie_index[mid] for mid in movie_ids if mid in self.movie_index]
RECURSIVE KnownIndices(_, _)
KnownIndices(c, ids) ==
    IF ids = <<>> THEN <<>>
    ELSE IF Head(ids) \in DOMAIN c.movie_index
         THEN <<c.movie_index[Head(ids)]>> \o KnownIndices(c, Tail(ids))
         ELSE KnownIndices(c, Tail(ids))

RECURSIVE VecSum(_, _)
VecSum(c, indices) ==
    IF indices = <<>> THEN <<0, 0>>
    ELSE LET r == c.matrix[Head(indices)]
             t == VecSum(c, Tail(indices))
         IN <<r[1] + t[1], r[2] + t[2]>>

\* ContentRecommender.profile_from_movie_ids: the mean of the raw rows of the
\* known ids is VecSum / Len(indices); it is then normalized
ProfileFromIds(c, ids) ==
    LET indices == KnownIndices(c, ids)
    IN IF indices = <<>> THEN NoProfile
       ELSE Normalize(VecSum(c, indices), Len(indices))

\* cosine similarity of two normalized vectors: n / sqrt(d)
Cos(n, d) == [k |-> "cos", n |-> n, d |-> d]

\* scores = self.matrix_norm @ profile.T
ContentScores(c, p) ==
    [i \in DOMAIN c.matrix_norm |->
        Cos(Dot(c.matrix_norm[i].v, p.v), c.matrix_norm[i].d2 * p.d2)]

\* for movie_id in exclude_movie_ids: score_list[movie_index[movie_id]] = -inf
RECURSIVE MaskExcluded(_, _, _)
MaskExcluded(c, scores, xids) ==
    IF xids = <<>> THEN scores
    ELSE IF Head(xids) \in DOMAIN c.movie_index
         THEN MaskExcluded(c, [scores EXCEPT ![c.movie_index[Head(xids)]] = NegInf],
                           Tail(xids))
         ELSE MaskExcluded(c, scores, Tail(xids))

ProfileFromMovieIds(ids) ==
    /\ Idle
    /\ profile' = ProfileFromIds(content, ids)
    /\ ret' = [NoRet EXCEPT !.op = "profile_from_movie_ids", !.args = ids,
                            !.outcome = "ok"]
    /\ UNCHANGED <<cf, content, server, calls, train, ingest>>

\* ContentRecommender.recommend_from_profile, on the profile of the request
RecommendFromProfile(n, exclude_movie_ids) ==
    /\ ret.op = "profile_from_movie_ids"
    /\ profile.k = "vec"
    /\ IF EarlyReturn(n)
       THEN ret' = [NoRet EXCEPT !.op = "recommend_from_profile", !.n = n,
                                 !.args = exclude_movie_ids, !.outcome = "ok",
                                 !.path = "empty"]
       ELSE \E scores \in {MaskExcluded(content, ContentScores(content, profile),
                                         exclude_movie_ids)} :
            \E c \in ArgPartition(scores, MinInt(n, Cardinality(DOMAIN scores))) :
                 LET top == SortedDesc(c, scores)
                 IN ret' = [NoRet EXCEPT
                              !.op = "recommend_from_profile", !.n = n,
                              !.args = exclude_movie_ids, !.outcome = "ok",
                              !.items = top,
                              !.ids = [p \in DOMAIN top |->
                                          ToString(content.movie_ids[top[p]])],
                              !.scores = [p \in DOMAIN top |-> scores[top[p]]],
                              !.scored = TRUE, !.path = "ranked"]
    /\ UNCHANGED <<cf, content, profile, server, calls, train, ingest>>

\* {key: value for key, value in zip(keys, values)} as the set of its
\* <<key, value>> items: a later occurrence of a key replaces the earlier value
RECURSIVE ZipDict(_, _)
ZipDict(keys, values) ==
    IF keys = <<>> THEN {}
    ELSE LET last == Len(keys)
             before == ZipDict(SubSeq(keys, 1, last - 1), SubSeq(values, 1, last - 1))
         IN {e \in before : e[1] # keys[last]} \cup {<<keys[last], values[last]>>}

\* every candidate scored with the row of the first candidate
SimilarityMapFirstRow(c, p, candidate_movie_ids) ==
    LET idx_list == KnownIndices(c, candidate_movie_ids)
        score_list == [q \in DOMAIN idx_list |->
                         Cos(Dot(c.matrix_norm[idx_list[1]].v, p.v),
                             c.matrix_norm[idx_list[1]].d2 * p.d2)]
        movie_ids == [q \in DOMAIN idx_list |-> c.movie_ids[idx_list[q]]]
    IN IF idx_list = <<>> THEN {} ELSE ZipDict(movie_ids, score_list)

\* the dict returned by ContentRecommender.similarity_to_profile
SimilarityMap(c, p, candidate_movie_ids) ==
    LET idx_list == KnownIndices(c, candidate_movie_ids)
        score_list == [q \in DOMAIN idx_list |->
                         Cos(Dot(c.matrix_norm[idx_list[q]].v, p.v),
                             c.matrix_norm[idx_list[q]].d2 * p.d2)]
        movie_ids == [q \in DOMAIN idx_list |-> c.movie_ids[idx_list[q]]]
    IN IF idx_list = <<>> THEN {} ELSE ZipDict(movie_ids, score_list)

\* ContentRecommender.similarity_to_profile, on the profile of the request
SimilarityToProfile(candidate_movie_ids) ==
    /\ ret.op = "profile_from_movie_ids"
    /\ profile.k = "vec"
    /\ ret' = [NoRet EXCEPT !.op = "similarity_to_profile",
                            !.args = candidate_movie_ids, !.outcome = "ok",
                            !.map = SimilarityMap(content, profile,
                                                  candidate_movie_ids)]
    /\ UNCHANGED <<cf, content, profile, server, calls, train, ingest>>

\* -------------------------------------------------------- HybridRecommender
\* what an instance of CFRecommender has: the fields set by __init__ and the
\* methods of the class
CFRecommenderAttrs ==
    {"user_index", "item_index", "index_user", "index_item", "user_factors",
     "item_factors", "user_means", "item_means", "global_mean", "rated_items",
     "_movie_titles", "load", "recommend", "_cold_start", "load_titles",
     "_top_indices"}

\* HybridRecommender.recommend: its first statement evaluates
\* self.cf.score_items, an attribute CFRecommender does not have, and the
\* AttributeError leaves the method before any candidate is selected
HybridRecommend(user_id, n, exclude_rated) ==
    /\ Idle
    /\ "score_items" \notin CFRecommenderAttrs
    /\ ret' = [NoRet EXCEPT !.op = "hybrid_recommend", !.user = user_id, !.n = n,
                            !.exclude = exclude_rated,
                            !.outcome = "AttributeError", !.path = "raised"]
    /\ UNCHANGED <<cf, content, profile, server, calls, train, ingest>>

\* numpy subtraction and division on the values that reach _min_max
Sub(a, b) ==
    IF a.k = "nan" \/ b.k = "nan" THEN NaN
    ELSE IF a.k = "fin" /\ b.k = "fin" THEN Rat(a.n * b.d - b.n * a.d, a.d * b.d)
    ELSE IF a.k = b.k THEN NaN
    ELSE IF a.k = "pinf" \/ b.k = "ninf" THEN PosInf
    ELSE NegInf

\* a / b for b > 0
Div(a, b) ==
    IF a.k = "nan" \/ b.k = "nan" THEN NaN
    ELSE IF a.k = "fin" /\ b.k = "fin" THEN Rat(a.n * b.d, a.d * b.n)
    ELSE IF a.k = "fin" THEN Fin(0)
    ELSE IF b.k = "fin" THEN a
    ELSE NaN

\* arr.min() and arr.max() of a nonempty array without NaN
ArrMin(arr) == arr[CHOOSE p \in DOMAIN arr : \A q \in DOMAIN arr : LE(arr[p], arr[q])]
ArrMax(arr) == arr[CHOOSE p \in DOMAIN arr : \A q \in DOMAIN arr : LE(arr[q], arr[p])]

\* HybridRecommender._min_max
MinMaxOf(arr) ==
    IF Len(arr) = 0 THEN arr
    ELSE IF EQ(ArrMax(arr), ArrMin(arr)) THEN [p \in DOMAIN arr |-> Fin(1)]
    ELSE [p \in DOMAIN arr |->
             Div(Sub(arr[p], ArrMin(arr)), Sub(ArrMax(arr), ArrMin(arr)))]

\* a direct call of the static method
MinMax(values) ==
    /\ Idle
    /\ ret' = [NoRet EXCEPT !.op = "_min_max", !.input = values, !.outcome = "ok",
                            !.scores = MinMaxOf(values)]
    /\ UNCHANGED <<cf, content, profile, server, calls, train, ingest>>

\* the caller has consumed the returned value: every returned list and every
\* profile is owned by the request that created it and dropped with it
Discard ==
    /\ ret # NoRet
    /\ ret' = NoRet
    /\ profile' = NoProfile
    /\ UNCHANGED <<cf, content, server, calls, train, ingest>>


\* ------------------------------------------------- properties, CF part
Range(s) == {s[p] : p \in DOMAIN s}

IsKnownCall == ret.op = "recommend" /\ ret.path = "known"
IsColdCall == ret.op = "recommend" /\ ret.path = "cold"

\* all positions ranked by score descending, equal scores by ascending position
RECURSIVE RankingOf(_, _)
RankingOf(scores, S) ==
    IF S = {} THEN <<>>
    ELSE LET b == CHOOSE i \in S : \A j \in S :
                     \/ LT(scores[j], scores[i])
                     \/ (EQ(scores[j], scores[i]) /\ i <= j)
         IN <<b>> \o RankingOf(scores, S \ {b})

Ranking(scores) == RankingOf(scores, DOMAIN scores)

Prefix(s, n) == SubSeq(s, 1, MinInt(n, Len(s)))

\* C1: with exclude_rated=True, recommend returns no item of rated_items[u],
\* for every n >= 1
C1_NoRatedItemReturned ==
    (IsKnownCall /\ ret.exclude) =>
        \A p \in DOMAIN ret.items :
            ret.items[p] \notin Range(RatedOf(cf, cf.user_index[ret.user]))

\* C2: for an unknown user, recommend returns the first min(n, items) items
\* of the ranking by item_mean descending, ties by ascending item index
C2_ColdStartRanking ==
    IsColdCall => ret.items = Prefix(Ranking(ColdScores(cf)), ret.n)

\* C3: for a known user the returned list is the one list fixed by the
\* scores, equal scores selected and ordered by ascending item index
C3_KnownUserTieBreak ==
    IsKnownCall =>
        ret.items = Prefix(Ranking(UserScores(cf, cf.user_index[ret.user], ret.exclude)),
                           ret.n)

\* s lists positions in non-increasing order of sc, and no position left out
\* has a higher sc than one that is listed
IsTopN(s, sc) ==
    /\ \A p, q \in DOMAIN s : p < q => LE(sc[s[q]], sc[s[p]])
    /\ \A p \in DOMAIN s : \A j \in DOMAIN sc :
          j \notin Range(s) => LE(sc[j], sc[s[p]])

\* C4 as stated: the returned items are a true top-n, in non-increasing
\* order, of score[i] = dot(user_factors[u], item_factors[:,i]) + user_means[u]
C4_TopNOfRawScore ==
    IsKnownCall => IsTopN(ret.items, RawScores(cf, cf.user_index[ret.user]))

\* C4 amended: the returned items are a true top-n, in non-increasing order,
\* of the score that is dot + user mean except that, with exclude_rated, the
\* score of every item of rated_items[u] is -inf; the reported score is that
\* score
C4_TopNOfEffectiveScore ==
    IsKnownCall =>
        LET sc == UserScores(cf, cf.user_index[ret.user], ret.exclude)
        IN /\ IsTopN(ret.items, sc)
           /\ \A p \in DOMAIN ret.items : ret.scores[p] = sc[ret.items[p]]
           /\ \A i \in DOMAIN sc :
                 sc[i] = IF ret.exclude /\ i \in Range(RatedOf(cf, cf.user_index[ret.user]))
                         THEN NegInf
                         ELSE Fin(Dot(cf.user_factors[cf.user_index[ret.user]],
                                      cf.item_factors[i])
                                  + cf.user_means[cf.user_index[ret.user]])

\* a known user with rated items asked for fewer items than exist, with
\* exclusion, and got two items of different score
C4_Witness ==
    /\ IsKnownCall /\ ret.exclude
    /\ RatedOf(cf, cf.user_index[ret.user]) # <<>>
    /\ Len(ret.items) = 2 /\ Len(ret.items) < NumItems
    /\ LT(ret.scores[2], ret.scores[1])

\* C27: CFRecommender.recommend with n >= 1 returns exactly
\* min(n, number of items) entries, with pairwise distinct movie ids that are
\* ids of index_item, whatever exclude_rated is and however many items the
\* user has rated
C27_ExactlyMinNItemsDistinct ==
    (ret.op = "recommend" /\ ret.n >= 1) =>
        /\ ret.outcome = "ok"
        /\ Len(ret.items) = MinInt(ret.n, Cardinality(DOMAIN cf.index_item))
        /\ \A p \in DOMAIN ret.items : ret.items[p] \in DOMAIN cf.index_item
        /\ \A p, q \in DOMAIN ret.items :
              p # q => cf.index_item[ret.items[p]] # cf.index_item[ret.items[q]]

\* a known user who rated items asked, with exclusion, for more items than
\* the model holds and got all of them, a rated one included
C27_Witness ==
    /\ IsKnownCall /\ ret.exclude
    /\ ret.n > Cardinality(DOMAIN cf.index_item)
    /\ Len(ret.items) = Cardinality(DOMAIN cf.index_item)
    /\ \E p \in DOMAIN ret.items :
          ret.items[p] \in Range(RatedOf(cf, cf.user_index[ret.user]))

\* ------------------------------- properties, content and hybrid part
\* C5: for n <= 0, CFRecommender.recommend (known and unknown users) and
\* ContentRecommender.recommend_from_profile return the empty list and
\* compute no score
C5_NonPositiveNIsEmpty ==
    (ret.op \in {"recommend", "recommend_from_profile"} /\ ret.n <= 0) =>
        /\ ret.outcome = "ok"
        /\ ret.items = <<>> /\ ret.ids = <<>> /\ ret.scores = <<>>
        /\ ~ret.scored

\* a content call with n = 0 has returned
C5_Witness ==
    /\ ret.op = "recommend_from_profile" /\ ret.n = 0 /\ ret.outcome = "ok"
    /\ profile.k = "vec"

\* the indexed rows whose movie id is not excluded
Pool(c, xids) ==
    {i \in DOMAIN c.movie_ids : c.movie_ids[i] \notin Range(xids)}

\* C9: recommend_from_profile with n larger than the candidate pool (the
\* indexed items not in exclude_movie_ids) returns exactly the pool, each item
\* once, in non-increasing content_score order
C9_ReturnsExactlyThePool ==
    (ret.op = "recommend_from_profile" /\ ret.n > Cardinality(Pool(content, ret.args))) =>
        /\ ret.outcome = "ok"
        /\ Range(ret.items) = Pool(content, ret.args)
        /\ Len(ret.items) = Cardinality(Pool(content, ret.args))
        /\ \A p, q \in DOMAIN ret.items : p < q => LE(ret.scores[q], ret.scores[p])

\* C26: no id passed in exclude_movie_ids is returned by
\* recommend_from_profile, for every n, the n above the number of
\* non-excluded indexed items included
C26_NoExcludedIdReturned ==
    ret.op = "recommend_from_profile" =>
        \A p \in DOMAIN ret.items :
            content.movie_ids[ret.items[p]] \notin Range(ret.args)

IsProfileCall == ret.op = "profile_from_movie_ids"

\* the supplied ids that the content index holds
KnownArgs(c, ids) == {mid \in Range(ids) : mid \in Range(c.movie_ids)}

HasContentOverlap(user_id) ==
    /\ user_id \in DOMAIN cf.user_index
    /\ \E p \in DOMAIN RatedOf(cf, cf.user_index[user_id]) :
          cf.index_item[RatedOf(cf, cf.user_index[user_id])[p]]
              \in {ToString(content.movie_ids[i]) : i \in DOMAIN content.movie_ids}

\* C6: HybridRecommender.recommend never ends in an error; without a content
\* profile or content overlap it returns the plain CF ranking
C6_HybridNeverErrors ==
    ret.op = "hybrid_recommend" =>
        /\ ret.outcome = "ok"
        /\ ~HasContentOverlap(ret.user) => ret.path = "cf_only"

\* C7: for a user with content overlap the call returns the blended ranking:
\* every returned item is among the top candidate_k items by CF score, and the
\* entries are in non-increasing order of the final score
C7_BlendedTopOfCandidates ==
    (ret.op = "hybrid_recommend" /\ ret.n >= 1 /\ HasContentOverlap(ret.user)) =>
        /\ ret.outcome = "ok" /\ ret.path = "blended"
        /\ \E sc \in {UserScores(cf, cf.user_index[ret.user], ret.exclude)} :
              \A p \in DOMAIN ret.items :
                 Cardinality({j \in DOMAIN sc : LT(sc[ret.items[p]], sc[j])}) < CandidateK
        /\ \A p, q \in DOMAIN ret.scores : p < q => LE(ret.scores[q], ret.scores[p])

InUnitInterval(x) == LE(Fin(0), x) /\ LE(x, Fin(1))

\* C8: min-max normalization maps every nonempty score vector, the ones that
\* hold the -inf exclusion sentinel included, into [0,1], and a vector of equal
\* entries to all 1.0
C8_MinMaxInUnitInterval ==
    (ret.op = "_min_max" /\ ret.input # <<>>) =>
        /\ Len(ret.scores) = Len(ret.input)
        /\ \A p \in DOMAIN ret.scores : InUnitInterval(ret.scores[p])
        /\ (\A p, q \in DOMAIN ret.input : ret.input[p] = ret.input[q]) =>
              \A p \in DOMAIN ret.scores : ret.scores[p] = Fin(1)

\* C25: HybridRecommender.recommend(user_id, n) returns, and what it returns
\* holds at most n entries on every path, the fallback paths without a
\* content profile or content overlap included, and no entry when n <= 0
C25_HybridReturnsAtMostN ==
    ret.op = "hybrid_recommend" =>
        /\ ret.outcome = "ok"
        /\ Len(ret.items) <= (IF ret.n <= 0 THEN 0 ELSE ret.n)

\* --------------------------------------------------------- specification
NoContent == [movie_ids |-> <<>>]

\* the API process before its startup handler has run: the initial values of
\* the module globals (None, None, None, None, {})
NoServer ==
    [MODEL |-> FALSE, HYBRID |-> FALSE, TMDB |-> FALSE, ENGINE |-> FALSE,
     POSTER_CACHE |-> {}, phase |-> "down"]

\* no poster lookup is in progress
NoCalls == <<>>

\* no training job has been started
NoTrain ==
    [phase |-> "none", error |-> "none", source |-> <<>>, min_ratings |-> 0,
     rank |-> 0, ratings |-> <<>>, user_index |-> <<>>, item_index |-> <<>>,
     index_user |-> <<>>, index_item |-> <<>>, rated_items |-> <<>>,
     user_means |-> <<>>, item_means |-> <<>>, global_mean |-> Fin(0), k |-> 0,
     user_factors |-> [rows |-> 0, cols |-> 0],
     item_factors |-> [rows |-> 0, cols |-> 0], artifact |-> "absent",
     file |-> [exists |-> FALSE, header |-> <<>>, rows |-> <<>>]]

\* no ingest job has been started.  The fields from table_before on are
\* history, not program state: the mapping before the run, the movies the
\* reader yielded, the movies searched for, how each search ended and the
\* rows written to the mapping
NoIngest ==
    [phase |-> "none", error |-> "none",
     file |-> [exists |-> FALSE, header |-> <<>>, rows |-> <<>>],
     pos |-> 0, limit |-> 0, failures_path |-> FALSE, failures |-> <<>>,
     table |-> <<>>, tmdb_movies |-> {}, mapped |-> {}, mapped_tmdb |-> {},
     count |-> 0, errors |-> 0, table_before |-> <<>>, yielded |-> <<>>,
     searched |-> <<>>, events |-> <<>>, written |-> <<>>]

InitCF ==
    /\ cf \in CFModels
    /\ content = NoContent
    /\ profile = NoProfile
    /\ ret = NoRet
    /\ server = NoServer /\ calls = NoCalls /\ train = NoTrain /\ ingest = NoIngest

NextCF ==
    \/ \E user_id \in UserIds, n \in -1 .. MaxN, exclude_rated \in BOOLEAN :
          Recommend(user_id, n, exclude_rated)
    \/ Discard

SpecCF == InitCF /\ [][NextCF]_vars

\* a fixed CF model for the runs that are about the content index
SomeCFModel ==
    CHOOSE m \in CFModels :
        /\ m.user_factors[0] = <<1, 0>>
        /\ \A i \in ItemIdx : m.item_factors[i] = <<1, 0>> /\ m.item_means[i] = 3
        /\ m.rated_items[0] = <<>>

\* the lists of movie ids a caller passes
IdLists == {SetToSortedSeq(S) : S \in SUBSET ({ContentIdOf[i] : i \in ContentIdx}
                                               \cup {UnknownMovie})}

\* the seed lists a profile is built from: at most one id, or two ids that
\* are neighbours in the order 1, 2, ..., UnknownMovie
SeedLists ==
    { ids \in IdLists :
        \/ Len(ids) <= 1
        \/ /\ Len(ids) = 2
           /\ \/ ids[2] = ids[1] + 1
              \/ (ids[1] = NumContent /\ ids[2] = UnknownMovie) }

\* the exclusion lists: at most one id, or every id of the index
ExcludeLists ==
    { ids \in IdLists :
        \/ Len(ids) <= 1
        \/ \A i \in ContentIdx : ContentIdOf[i] \in {ids[p] : p \in DOMAIN ids} }

InitContent ==
    /\ cf = SomeCFModel
    /\ content \in ContentModels
    /\ profile = NoProfile
    /\ ret = NoRet
    /\ server = NoServer /\ calls = NoCalls /\ train = NoTrain /\ ingest = NoIngest

NextContent ==
    \/ \E ids \in SeedLists : ProfileFromMovieIds(ids)
    \/ \E n \in -1 .. MaxN, xids \in ExcludeLists : RecommendFromProfile(n, xids)
    \/ Discard

SpecContent == InitContent /\ [][NextContent]_vars

\* ---- both recommenders behind one caller
EngineCFModels ==
    { m \in CFModels :
        /\ m.user_factors[0] = <<1, 0>>
        /\ \A i \in ItemIdx : m.item_means[i] = 3 /\ m.item_factors[i] = <<1, 0>>
        /\ m.rated_items[0] \in {<<>>, <<0>>} }

\* the content indexes whose rows are all alike
EngineContentModels ==
    { c \in ContentModels : \A i \in ContentIdx : c.matrix[i] = c.matrix[0] }

InitEngine ==
    /\ cf \in EngineCFModels
    /\ content \in EngineContentModels
    /\ profile = NoProfile
    /\ ret = NoRet
    /\ server = NoServer /\ calls = NoCalls /\ train = NoTrain /\ ingest = NoIngest

NextEngine ==
    \/ \E user_id \in UserIds, n \in -1 .. MaxN, exclude_rated \in BOOLEAN :
          Recommend(user_id, n, exclude_rated)
    \/ \E ids \in SeedLists : ProfileFromMovieIds(ids)
    \/ \E n \in -1 .. MaxN, xids \in SeedLists : RecommendFromProfile(n, xids)
    \/ Discard

SpecEngine == InitEngine /\ [][NextEngine]_vars

\* ---- the hybrid recommender
\* the CF score values of a candidate vector, the exclusion sentinel included
ScoreVals == {NegInf, Fin(2), Fin(3), Fin(4)}

\* the candidate vectors scores[candidate_idx]: at most one entry per item
ScoreVectors == UNION { [1 .. len -> ScoreVals] : len \in 0 .. NumItems }

HybridCFModels ==
    { m \in CFModels :
        /\ \A i \in ItemIdx : m.item_means[i] = 3
        /\ \A i \in ItemIdx : m.item_factors[i] = <<1, 0>> }

InitHybrid ==
    /\ cf \in HybridCFModels
    /\ content \in EngineContentModels
    /\ profile = NoProfile
    /\ ret = NoRet
    /\ server = NoServer /\ calls = NoCalls /\ train = NoTrain /\ ingest = NoIngest

NextHybrid ==
    \/ \E user_id \in UserIds, n \in -1 .. MaxN, exclude_rated \in BOOLEAN :
          HybridRecommend(user_id, n, exclude_rated)
    \/ \E values \in ScoreVectors : MinMax(values)
    \/ Discard

SpecHybrid == InitHybrid /\ [][NextHybrid]_vars

\* ---- similarity_to_profile behind one caller
\* the content indexes that differ in their first two rows only
SimilarityContentModels ==
    { c \in ContentModels :
        \A i \in ContentIdx : i >= 2 => c.matrix[i] = <<0, 0>> }

\* the candidate lists: every order and every repetition of the first two
\* ids of the index and of an id the index does not hold
CandidateLists ==
    UNION { [1 .. len -> {ContentIdOf[0], ContentIdOf[1], UnknownMovie}] :
              len \in 0 .. MaxCandidates }

InitSimilarity ==
    /\ cf = SomeCFModel
    /\ content \in SimilarityContentModels
    /\ profile = NoProfile
    /\ ret = NoRet
    /\ server = NoServer /\ calls = NoCalls /\ train = NoTrain /\ ingest = NoIngest

NextSimilarity ==
    \/ \E ids \in SeedLists : ProfileFromMovieIds(ids)
    \/ \E candidates \in CandidateLists : SimilarityToProfile(candidates)
    \/ Discard

SpecSimilarity == InitSimilarity /\ [][NextSimilarity]_vars

\* C11: for a fixed profile, similarity_to_profile returns the same
\* id-to-score mapping for every list that holds the same set of candidate
\* ids, whatever the order and the repetitions of the ids in the list
C11_SameMapForSameIdSet ==
    ret.op = "similarity_to_profile" =>
        \A other \in CandidateLists :
            Range(other) = Range(ret.args) =>
                SimilarityMap(content, profile, other) = ret.map

\* a call with a repeated id, in descending id order, returned two entries
\* of different score
C11_Witness ==
    /\ ret.op = "similarity_to_profile"
    /\ ret.args = <<ContentIdOf[1], ContentIdOf[0], ContentIdOf[1]>>
    /\ Cardinality(ret.map) = 2
    /\ \E e, f \in ret.map : LT(e[2], f[2])

\* C24: the keys of the mapping that similarity_to_profile returns are
\* exactly the supplied candidate ids that the content index holds: unknown
\* ids are dropped without an error, no other id appears, and a list without
\* a known id gives the empty mapping
C24_KeysAreTheKnownCandidates ==
    ret.op = "similarity_to_profile" =>
        /\ ret.outcome = "ok"
        /\ {e[1] : e \in ret.map} =
               Range(ret.args) \cap Range(content.movie_ids)
        /\ (Range(ret.args) \cap Range(content.movie_ids) = {}) => ret.map = {}

\* a call with an unknown id before and after a known one returned the one
\* entry of the known id
C24_Witness ==
    /\ ret.op = "similarity_to_profile"
    /\ ret.args = <<UnknownMovie, ContentIdOf[1], UnknownMovie>>
    /\ Cardinality(ret.map) = 1
    /\ \E e \in ret.map : e[1] = ContentIdOf[1]

\* ------------------------------------------------------------ API process
\* the rows of the movielens_tmdb_map table: one row for every movie of the
\* content index and one for a movie the content index does not hold
TmdbOf(movie_id) == movie_id + 100

MapTable ==
    { [movielens_movie_id |-> m, tmdb_id |-> TmdbOf(m)] :
        m \in {ContentIdOf[i] : i \in ContentIdx} \cup {UnknownMovie} }

\* a tmdb id that the table does not map
UnmappedTmdb == TmdbOf(0)

\* the values of _POSTER_CACHE: None, or the URL built from the poster path
\* that TMDB holds for the id
PosterNone == [k |-> "none", id |-> 0]
PosterUrl(tmdb_id) == [k |-> "url", id |-> tmdb_id]

\* the dict _POSTER_CACHE as the set of its <<key, value>> items
CacheHas(cache, tmdb_id) == \E e \in cache : e[1] = tmdb_id
CacheGet(cache, tmdb_id) == (CHOOSE e \in cache : e[1] = tmdb_id)[2]
\* a store that keeps the value an id already has
CachePutIfAbsent(cache, tmdb_id, value) ==
    IF \E e \in cache : e[1] = tmdb_id THEN cache ELSE cache \cup {<<tmdb_id, value>>}

CachePut(cache, tmdb_id, value) ==
    {e \in cache : e[1] # tmdb_id} \cup {<<tmdb_id, value>>}

\* a process that goes on to serve after its startup handler raised
ServingAfterFailedStartup == server.phase \in {"down", "up", "failed"}

\* the process serves requests: its startup handler has completed, or it was
\* never run (the globals keep their initial None); a process whose startup
\* handler raised serves nothing
Serving == server.phase \in {"down", "up"}

\* load_model, the startup handler.  cf_artifacts / content_artifacts: the
\* artifact files can be loaded; api_key / db_url: TMDB_API_KEY / MLR_DB_URL
\* are set; db_init: init_db reaches the database (or MLR_DB_INIT is off)
LoadModel(cf_artifacts, content_artifacts, api_key, db_url, db_init) ==
    /\ Idle
    /\ server.phase = "down"
    /\ server' =
         IF ~cf_artifacts THEN [server EXCEPT !.phase = "failed"]
         ELSE IF ~content_artifacts
         THEN [server EXCEPT !.MODEL = TRUE, !.phase = "failed"]
         ELSE IF db_url /\ ~db_init
         THEN [server EXCEPT !.MODEL = TRUE, !.HYBRID = TRUE, !.TMDB = api_key,
                             !.ENGINE = TRUE, !.phase = "failed"]
         ELSE [server EXCEPT !.MODEL = TRUE, !.HYBRID = TRUE, !.TMDB = api_key,
                             !.ENGINE = db_url, !.phase = "up"]
    /\ UNCHANGED <<cf, content, profile, ret, calls, train, ingest>>

\* what an instance of ContentRecommender has: the fields set by __init__ and
\* the methods of the class
ContentRecommenderAttrs ==
    {"matrix", "movie_ids", "movie_index", "matrix_norm", "load",
     "profile_from_movie_ids", "similarity_to_profile", "recommend_from_profile"}

\* a response of the API: an HTTPException raised by the handler (503, 400,
\* 404), or status 500 for an exception that leaves the handler unhandled
Failure(op, tmdb_ids, user_id, n, status, outcome, detail) ==
    [NoRet EXCEPT !.op = op, !.args = tmdb_ids, !.user = user_id, !.n = n,
                  !.status = status, !.outcome = outcome, !.detail = detail]

\* the query of the seed endpoints: the MovieLens ids of the rows whose
\* tmdb_id is among the requested ids
MappedMovielensIds(tmdb_ids) ==
    SetToSortedSeq({r.movielens_movie_id :
                      r \in {q \in MapTable : q.tmdb_id \in Range(tmdb_ids)}})

\* [mid for mid in payload.tmdb_ids if mid not in mapped_tmdb_ids]
MissingTmdbIds(tmdb_ids) ==
    SelectSeq(tmdb_ids, LAMBDA t : \A r \in MapTable : r.tmdb_id # t)

\* the statements that the two seed endpoints share, up to the choice of the
\* profile: every way they can end.  A database query and a TMDB fetch can
\* fail whenever they are made.  An element is the failure that ends the
\* request, or status 200 with the profile to rank by.
SeedStage(tmdb_ids) ==
    LET fail(status, outcome, detail) ==
            [status |-> status, outcome |-> outcome, detail |-> detail,
             ids |-> <<>>, profile |-> NoProfile]
    IN IF ~server.HYBRID \/ ~server.MODEL
       THEN {fail(503, "HTTPException", "Model not loaded")}
       ELSE IF ~server.ENGINE
       THEN {fail(503, "HTTPException", "Database not configured")}
       ELSE IF tmdb_ids = <<>>
       THEN {fail(400, "HTTPException", "tmdb_ids is required")}
       ELSE {fail(500, "OperationalError", "seed query")} \cup
            ( IF MissingTmdbIds(tmdb_ids) # <<>>
              THEN IF ~server.TMDB
                   THEN {fail(503, "HTTPException", "TMDB API key not configured")}
                   ELSE {fail(500, "HTTPError", "fetch_movie_bundle")} \cup
                        {fail(500, "AttributeError", "profile_from_texts") :
                           x \in {a \in {"profile_from_texts"} :
                                    a \notin ContentRecommenderAttrs}}
              ELSE { IF p = NoProfile
                     THEN fail(404, "HTTPException", "No content profile available")
                     ELSE [status |-> 200, outcome |-> "ok", detail |-> "",
                           ids |-> MappedMovielensIds(tmdb_ids), profile |-> p] :
                       p \in {ProfileFromIds(content, MappedMovielensIds(tmdb_ids))} } )

\* every (top_idx, score_list) that recommend_from_profile can end with
ProfileTops(c, p, n, xids) ==
    IF EarlyReturn(n) THEN {[top |-> <<>>, scores |-> <<>>]}
    ELSE UNION { { [top |-> SortedDesc(t, scores), scores |-> scores] :
                     t \in ArgPartition(scores, MinInt(n, Cardinality(DOMAIN scores))) } :
                 scores \in {MaskExcluded(c, ContentScores(c, p), xids)} }

\* what the TMDB service does with a movie_details request
TmdbAnswers == {"error", "no_poster", "poster"}

\* _poster_url_for_tmdb run to its end without another thread in between:
\* the value it returns
PosterValue(cache, tmdb_id, tmdb_answer) ==
    IF CacheHas(cache, tmdb_id) THEN CacheGet(cache, tmdb_id)
    ELSE IF ~server.TMDB THEN PosterNone
    ELSE IF tmdb_answer = "poster" THEN PosterUrl(tmdb_id)
    ELSE PosterNone

\* ... and the cache it leaves
PosterCacheAfter(cache, tmdb_id, tmdb_answer) ==
    IF CacheHas(cache, tmdb_id) \/ ~server.TMDB THEN cache
    ELSE CachePut(cache, tmdb_id, PosterValue(cache, tmdb_id, tmdb_answer))

\* tmdb_map.get(entry["movie_id"]) on the dict of _map_movielens_to_tmdb,
\* {str(row.movielens_movie_id): int(row.tmdb_id)}; 0 stands for None
TmdbMapGet(movie_id) ==
    IF \E r \in MapTable : ToString(r.movielens_movie_id) = movie_id
    THEN (CHOOSE r \in MapTable : ToString(r.movielens_movie_id) = movie_id).tmdb_id
    ELSE 0

\* the enrichment loop over the returned movie ids: the poster_url of every
\* entry ("absent" when the key is never set) and the cache after the loop
RECURSIVE Enrich(_, _, _)
Enrich(movie_ids, cache, tmdb_answer) ==
    IF movie_ids = <<>> THEN [posters |-> <<>>, cache |-> cache]
    ELSE LET tmdb_id == TmdbMapGet(Head(movie_ids))
             here == IF tmdb_id = 0 THEN [k |-> "absent", id |-> 0]
                     ELSE PosterValue(cache, tmdb_id, tmdb_answer)
             after == IF tmdb_id = 0 THEN cache
                      ELSE PosterCacheAfter(cache, tmdb_id, tmdb_answer)
             rest == Enrich(Tail(movie_ids), after, tmdb_answer)
         IN [posters |-> <<here>> \o rest.posters, cache |-> rest.cache]

\* float(entry["content_score"]): the cosine n / sqrt(d) as a fraction (d is
\* a perfect square for the content indexes of the API runs)
AsFin(x) ==
    IF x.k = "cos" THEN Rat(x.n, CHOOSE r \in 1 .. x.d : r * r = x.d) ELSE x

\* the CF popularity proxy of a candidate: item_means[item_index[movie_id]],
\* or global_mean for a movie the CF model does not index
CfProxy(m, movie_id) ==
    IF movie_id \in DOMAIN m.item_index
    THEN Fin(m.item_means[m.item_index[movie_id]])
    ELSE Fin(m.global_mean)

\* the min-max scaling written out in the seed-hybrid endpoint
CfNorm(cf_scores) ==
    IF EQ(ArrMax(cf_scores), ArrMin(cf_scores))
    THEN [p \in DOMAIN cf_scores |-> Fin(1)]
    ELSE [p \in DOMAIN cf_scores |->
             Div(Sub(cf_scores[p], ArrMin(cf_scores)),
                 Sub(ArrMax(cf_scores), ArrMin(cf_scores)))]

\* 0.7 * cf_scaled + 0.3 * content_score
HybridScore(cf_scaled, content_score) ==
    IF content_score.k = "ninf" THEN NegInf
    ELSE Rat(7 * cf_scaled.n * content_score.d + 3 * content_score.n * cf_scaled.d,
             10 * cf_scaled.d * content_score.d)

\* s[:n] of Python: a negative n counts from the end
PySlice(s, n) ==
    IF n >= 0 THEN SubSeq(s, 1, MinInt(n, Len(s)))
    ELSE SubSeq(s, 1, Len(s) + n)

\* every list of entries that CFRecommender.recommend can return
RecommendReturns(user_id, n, exclude_rated) ==
    IF EarlyReturn(n)
    THEN {Result("recommend", user_id, n, exclude_rated, "empty", <<>>, <<>>, FALSE)}
    ELSE IF user_id \notin DOMAIN cf.user_index
    THEN { Result("recommend", user_id, n, exclude_rated, "cold", top,
                  ColdScores(cf), TRUE) : top \in TopIndices(ColdScores(cf), n) }
    ELSE { Result("recommend", user_id, n, exclude_rated, "known", top,
                  UserScores(cf, cf.user_index[user_id], exclude_rated), TRUE) :
             top \in TopIndices(UserScores(cf, cf.user_index[user_id],
                                           exclude_rated), n) }

\* GET /recommendations/{user_id}; n has passed the validation ge=1
GetRecommendations(user_id, n) ==
    /\ Idle /\ Serving
    /\ IF ~server.MODEL
       THEN ret' = Failure("get_recommendations", <<>>, user_id, n, 503,
                           "HTTPException", "Model not loaded")
       ELSE \E r \in RecommendReturns(user_id, n, TRUE) :
               ret' = [r EXCEPT !.op = "get_recommendations", !.status = 200]
    /\ UNCHANGED <<cf, content, profile, server, calls, train, ingest>>

\* GET /recommendations/hybrid/{user_id}: with the models loaded the call of
\* _HYBRID.recommend raises AttributeError, which no handler catches
GetHybridRecommendations(user_id, n) ==
    /\ Idle /\ Serving
    /\ "score_items" \notin CFRecommenderAttrs
    /\ IF ~server.HYBRID \/ ~server.MODEL
       THEN ret' = Failure("get_hybrid_recommendations", <<>>, user_id, n, 503,
                           "HTTPException", "Model not loaded")
       ELSE ret' = Failure("get_hybrid_recommendations", <<>>, user_id, n, 500,
                           "AttributeError", "score_items")
    /\ UNCHANGED <<cf, content, profile, server, calls, train, ingest>>

\* the end of a seed endpoint on the entries e: the query of
\* _map_movielens_to_tmdb fails, or the enrichment loop runs with the TMDB
\* service in one of its conditions
SeedResponse(op, tmdb_ids, n, st, e) ==
    \/ /\ e.ids # <<>>
       /\ ret' = Failure(op, tmdb_ids, "", n, 500, "OperationalError",
                       "_map_movielens_to_tmdb")
       /\ profile' = st.profile
       /\ UNCHANGED server
    \/ \E tmdb_answer \in TmdbAnswers :
       \E en \in {Enrich(e.ids, server.POSTER_CACHE, tmdb_answer)} :
         /\ ret' = [NoRet EXCEPT !.op = op, !.args = tmdb_ids, !.n = n,
                                 !.exclude = TRUE, !.input = st.ids,
                                 !.status = 200, !.outcome = "ok",
                                 !.items = e.items, !.ids = e.ids,
                                 !.scores = e.scores,
                                 !.content_scores = e.content_scores,
                                 !.cf_scores = e.cf_scores,
                                 !.posters = en.posters,
                                 !.scored = TRUE, !.path = "ranked"]
         /\ profile' = st.profile
         /\ server' = [server EXCEPT !.POSTER_CACHE = en.cache]

\* POST /recommendations/seed
GetSeedRecommendations(tmdb_ids, n) ==
    /\ Idle /\ Serving
    /\ \E st \in SeedStage(tmdb_ids) :
         IF st.status # 200
         THEN /\ ret' = Failure("get_seed_recommendations", tmdb_ids, "", n,
                                st.status, st.outcome, st.detail)
              /\ UNCHANGED <<profile, server>>
         ELSE \E r \in ProfileTops(content, st.profile, n, st.ids) :
              \E content_scores \in {[p \in DOMAIN r.top |-> r.scores[r.top[p]]]} :
                SeedResponse("get_seed_recommendations", tmdb_ids, n, st,
                    [items |-> r.top,
                     ids |-> [p \in DOMAIN r.top |->
                                 ToString(content.movie_ids[r.top[p]])],
                     scores |-> content_scores,
                     content_scores |-> content_scores,
                     cf_scores |-> <<>>])
    /\ UNCHANGED <<cf, content, calls, train, ingest>>

MaxInt(a, b) == IF a >= b THEN a ELSE b

\* the hybrid_score of every entry of content_results
SeedHybridScores(cf_scores, content_scores) ==
    [p \in DOMAIN cf_scores |-> HybridScore(CfNorm(cf_scores)[p], content_scores[p])]

\* results.sort(key=hybrid_score, reverse=True) and results[: payload.n], as
\* the positions of content_results that are kept
SeedOrder(hybrid, n) ==
    PySlice(SortedDesc([p \in DOMAIN hybrid |-> p], hybrid), n)

\* POST /recommendations/seed-hybrid
GetSeedHybridRecommendations(tmdb_ids, n) ==
    /\ Idle /\ Serving
    /\ \E st \in SeedStage(tmdb_ids) :
         IF st.status # 200
         THEN /\ ret' = Failure("get_seed_hybrid_recommendations", tmdb_ids, "",
                                n, st.status, st.outcome, st.detail)
              /\ UNCHANGED <<profile, server>>
         ELSE \E r \in ProfileTops(content, st.profile,
                                   MaxInt(n, SeedCandidateK), st.ids) :
                IF r.top = <<>>
                THEN /\ ret' = [NoRet EXCEPT
                                  !.op = "get_seed_hybrid_recommendations",
                                  !.args = tmdb_ids, !.n = n, !.exclude = TRUE,
                                  !.input = st.ids, !.status = 200,
                                  !.outcome = "ok", !.path = "empty"]
                     /\ profile' = st.profile
                     /\ UNCHANGED server
                ELSE \E movie_ids \in {[p \in DOMAIN r.top |->
                                          ToString(content.movie_ids[r.top[p]])]} :
                     \E content_scores \in {[p \in DOMAIN r.top |->
                                               AsFin(r.scores[r.top[p]])]} :
                     \E cf_scores \in {[p \in DOMAIN r.top |->
                                          CfProxy(cf, movie_ids[p])]} :
                     \E hybrid \in {SeedHybridScores(cf_scores, content_scores)} :
                     \E order \in {SeedOrder(hybrid, n)} :
                       SeedResponse("get_seed_hybrid_recommendations", tmdb_ids,
                           n, st,
                           [items |-> [q \in DOMAIN order |-> r.top[order[q]]],
                            ids |-> [q \in DOMAIN order |-> movie_ids[order[q]]],
                            scores |-> [q \in DOMAIN order |-> hybrid[order[q]]],
                            content_scores |->
                                [q \in DOMAIN order |-> content_scores[order[q]]],
                            cf_scores |->
                                [q \in DOMAIN order |-> cf_scores[order[q]]]])
    /\ UNCHANGED <<cf, content, calls, train, ingest>>

\* ---- the API process: specification
\* the CF models of the API runs: the first two item means alike or apart
ServerCFModels ==
    { m \in CFModels :
        /\ m.user_factors[0] = <<1, 0>>
        /\ \A i \in ItemIdx : m.item_factors[i] = <<1, 0>>
        /\ m.rated_items[0] = <<>>
        /\ m.item_means[0] = 2
        /\ \A i \in ItemIdx : i >= 2 => m.item_means[i] = 3 }

\* the content indexes of the API runs: rows over the first term only, so
\* that every cosine is 0 or 1, the first row with text
ServerContentModels ==
    { c \in ContentModels :
        /\ c.matrix[0] = <<1, 0>>
        /\ \A i \in ContentIdx : c.matrix[i][2] = 0
        /\ \A i \in ContentIdx : i >= 2 => c.matrix[i] = <<1, 0>> }

\* the seed lists of the API runs: at most two tmdb ids, mapped or not
SeedTmdbIds ==
    {TmdbOf(ContentIdOf[0]), TmdbOf(ContentIdOf[1]), TmdbOf(UnknownMovie),
     UnmappedTmdb}

SeedRequests ==
    { ids \in UNION { [1 .. len -> SeedTmdbIds] : len \in 0 .. 2 } :
        Len(ids) = 2 => ids[1] > ids[2] }

InitServer ==
    /\ cf \in ServerCFModels
    /\ content \in ServerContentModels
    /\ profile = NoProfile
    /\ ret = NoRet
    /\ server = NoServer /\ calls = NoCalls /\ train = NoTrain /\ ingest = NoIngest

NextServer ==
    \/ \E cf_artifacts, content_artifacts, api_key, db_url, db_init \in BOOLEAN :
          LoadModel(cf_artifacts, content_artifacts, api_key, db_url, db_init)
    \/ \E user_id \in UserIds, n \in 1 .. MaxN : GetRecommendations(user_id, n)
    \/ \E user_id \in UserIds, n \in 1 .. MaxN : GetHybridRecommendations(user_id, n)
    \/ \E tmdb_ids \in SeedRequests, n \in -1 .. MaxN :
          GetSeedRecommendations(tmdb_ids, n)
    \/ \E tmdb_ids \in SeedRequests, n \in -1 .. MaxN :
          GetSeedHybridRecommendations(tmdb_ids, n)
    \/ Discard

SpecServer == InitServer /\ [][NextServer]_vars

\* ---- the API process: properties
SeedOps == {"get_seed_recommendations", "get_seed_hybrid_recommendations"}

Endpoints == SeedOps \cup {"get_recommendations", "get_hybrid_recommendations"}

\* the requested tmdb ids whose MovieLens id is a row of the content index
SeedsInContentIndex(tmdb_ids) ==
    { t \in Range(tmdb_ids) :
        \E r \in MapTable : /\ r.tmdb_id = t
                            /\ r.movielens_movie_id \in DOMAIN content.movie_index }

\* an external call (database query, TMDB fetch) failed during the request
ExternalFailure == ret.outcome \in {"OperationalError", "HTTPError"}

\* C12: with the models loaded (and the database and TMDB configured and
\* answering), a seed request (seed and seed-hybrid) over a nonempty seed list
\* ends with a ranking or with the 404 'no profile available'; it ends with
\* 404 only when no seed id maps into the content index, and it returns a
\* ranking whenever at least one seed id does
C12_SeedFailsOnlyWithoutProfile ==
    ( /\ ret.op \in SeedOps /\ server.MODEL /\ server.HYBRID
      /\ server.TMDB /\ server.ENGINE
      /\ ret.args # <<>> /\ ~ExternalFailure ) =>
        /\ ret.status \in {200, 404}
        /\ ret.status = 404 => SeedsInContentIndex(ret.args) = {}
        /\ SeedsInContentIndex(ret.args) # {} => ret.status = 200

\* the entries of a seed-hybrid response: for some list of candidates that
\* recommend_from_profile can retrieve, of at most max(n, candidate_k) items,
\* q is the position of a candidate with the proxy, the scaled proxy and the
\* hybrid score that the response reports
BlendedFrom(r) ==
    /\ Len(r.top) <= MaxInt(ret.n, SeedCandidateK)
    /\ \A q \in DOMAIN ret.items :
          /\ ret.items[q] \in Range(r.top)
          /\ ret.ids[q] \in DOMAIN cf.item_index
          /\ ret.cf_scores[q] = Fin(cf.item_means[cf.item_index[ret.ids[q]]])
          /\ EQ(ret.content_scores[q], AsFin(r.scores[ret.items[q]]))
          /\ \E lo, hi \in {Fin(cf.item_means[cf.item_index[
                                  ToString(content.movie_ids[i])]]) :
                              i \in Range(r.top)} :
                /\ \A i \in Range(r.top) :
                      LET x == Fin(cf.item_means[cf.item_index[
                                      ToString(content.movie_ids[i])]])
                      IN LE(lo, x) /\ LE(x, hi)
                /\ EQ(ret.scores[q],
                      HybridScore(IF EQ(lo, hi) THEN Fin(1)
                                  ELSE Div(Sub(ret.cf_scores[q], lo), Sub(hi, lo)),
                                  ret.content_scores[q]))

\* C13: a seed-hybrid response holds at most n entries, in non-increasing
\* hybrid_score order, drawn from at most max(n, candidate_k) content
\* candidates, each with cf_score = item_mean and hybrid_score =
\* 0.7 * (min-max scaled item_mean over the candidates) + 0.3 * content_score
C13_SeedHybridBlend ==
    (ret.op = "get_seed_hybrid_recommendations" /\ ret.status = 200) =>
        /\ Len(ret.ids) <= MaxInt(ret.n, 0)
        /\ \A p, q \in DOMAIN ret.scores : p < q => LE(ret.scores[q], ret.scores[p])
        /\ ret.items # <<>> =>
              \E r \in ProfileTops(content, profile,
                                   MaxInt(ret.n, SeedCandidateK), ret.input) :
                  BlendedFrom(r)

C15_MissingConfigKeepsScoring ==
    ( /\ ret.op \in Endpoints
      /\ server.phase = "up" /\ (~server.TMDB \/ ~server.ENGINE)
      /\ ~ExternalFailure
      /\ ret.op \in SeedOps =>
            /\ ret.args # <<>>
            /\ SeedsInContentIndex(ret.args) = Range(ret.args) ) =>
        /\ ret.status = 200
        /\ \A q \in DOMAIN ret.posters : ret.posters[q].k \in {"absent", "none"}

\* C16: the failure of an external enrichment call during a request (the
\* poster lookup, the id-mapping query of _map_movielens_to_tmdb, the metadata
\* bundle fetch) never ends the request with a failure
C16_EnrichmentFailureIsAbsorbed ==
    ret.op \in Endpoints =>
        ret.detail \notin {"_map_movielens_to_tmdb", "fetch_movie_bundle"}

\* ------------------------------------------- _poster_url_for_tmdb, threads
\* Request handlers run on a thread pool; a call is a sequence of steps, each
\* of them one dict operation or the external lookup, and the steps of
\* different threads interleave freely.
Threads == 1 .. NumThreads

\* the ids the threads ask for
PosterIds == {TmdbOf(ContentIdOf[0]), TmdbOf(ContentIdOf[1])}

PosterUnset == [k |-> "unset", id |-> 0]

\* a thread that is not in a call.  The last four fields are history, not
\* program state: the cache entry of the id when the call was entered,
\* whether the call has made the external lookup, whether it has written to
\* the cache, and whether another call was in progress at any time during it
NoCall == [pc |-> "idle", tmdb_id |-> 0, value |-> PosterUnset,
           result |-> PosterUnset, error |-> "none",
           entry_before |-> PosterUnset, looked_up |-> FALSE,
           wrote |-> FALSE, overlapped |-> FALSE]

\* calls.thread: the position of every thread; calls.written: for every id
\* the value of the last write to its cache entry (history, not program state)
IdleCalls ==
    [thread |-> [t \in Threads |-> NoCall],
     written |-> [i \in PosterIds |-> PosterUnset]]

\* the call is entered
PosterCall(t, tmdb_id) ==
    /\ calls.thread[t].pc = "idle"
    /\ calls' =
         [calls EXCEPT !.thread =
            [u \in Threads |->
               IF u = t
               THEN [NoCall EXCEPT
                        !.pc = "check", !.tmdb_id = tmdb_id,
                        !.entry_before =
                            IF CacheHas(server.POSTER_CACHE, tmdb_id)
                            THEN CacheGet(server.POSTER_CACHE, tmdb_id)
                            ELSE PosterUnset,
                        !.overlapped = \E v \in Threads \ {t} :
                                          calls.thread[v].pc # "idle"]
               ELSE IF calls.thread[u].pc # "idle"
               THEN [calls.thread[u] EXCEPT !.overlapped = TRUE]
               ELSE calls.thread[u]]]
    /\ UNCHANGED <<cf, content, profile, ret, server, train, ingest>>

\* the test that takes a cached None for a missing entry
PosterCheckRetriesNone(t) ==
    /\ calls.thread[t].pc = "check"
    /\ calls' = [calls EXCEPT !.thread[t].pc =
                    IF /\ CacheHas(server.POSTER_CACHE, calls.thread[t].tmdb_id)
                       /\ CacheGet(server.POSTER_CACHE, calls.thread[t].tmdb_id)
                             # PosterNone
                    THEN "read" ELSE "tmdb"]
    /\ UNCHANGED <<cf, content, profile, ret, server, train, ingest>>

\* if tmdb_id in _POSTER_CACHE:
PosterCheck(t) ==
    /\ calls.thread[t].pc = "check"
    /\ calls' = [calls EXCEPT !.thread[t].pc =
                    IF CacheHas(server.POSTER_CACHE, calls.thread[t].tmdb_id)
                    THEN "read" ELSE "tmdb"]
    /\ UNCHANGED <<cf, content, profile, ret, server, train, ingest>>

\* return _POSTER_CACHE[tmdb_id]: a KeyError if the entry is gone
PosterRead(t) ==
    /\ calls.thread[t].pc = "read"
    /\ calls' =
         IF CacheHas(server.POSTER_CACHE, calls.thread[t].tmdb_id)
         THEN [calls EXCEPT !.thread[t].pc = "done",
                            !.thread[t].result =
                                CacheGet(server.POSTER_CACHE, calls.thread[t].tmdb_id)]
         ELSE [calls EXCEPT !.thread[t].pc = "done",
                            !.thread[t].error = "KeyError"]
    /\ UNCHANGED <<cf, content, profile, ret, server, train, ingest>>

\* if _TMDB is None: return None
PosterClient(t) ==
    /\ calls.thread[t].pc = "tmdb"
    /\ calls' =
         IF ~server.TMDB
         THEN [calls EXCEPT !.thread[t].pc = "done", !.thread[t].result = PosterNone]
         ELSE [calls EXCEPT !.thread[t].pc = "lookup"]
    /\ UNCHANGED <<cf, content, profile, ret, server, train, ingest>>

\* details = _TMDB.movie_details(tmdb_id), and the value the call will store:
\* None after an exception or without a poster_path, else the URL
PosterLookup(t, tmdb_answer) ==
    /\ calls.thread[t].pc = "lookup"
    /\ calls' = [calls EXCEPT !.thread[t].pc = "write",
                              !.thread[t].looked_up = TRUE,
                              !.thread[t].value =
                                  IF tmdb_answer = "poster"
                                  THEN PosterUrl(calls.thread[t].tmdb_id)
                                  ELSE PosterNone]
    /\ UNCHANGED <<cf, content, profile, ret, server, train, ingest>>

\* _POSTER_CACHE[tmdb_id] = value; return value
PosterWrite(t) ==
    /\ calls.thread[t].pc = "write"
    /\ server' = [server EXCEPT !.POSTER_CACHE =
                     CachePut(server.POSTER_CACHE, calls.thread[t].tmdb_id,
                              calls.thread[t].value)]
    /\ calls' = [calls EXCEPT !.thread[t].pc = "done",
                              !.thread[t].wrote = TRUE,
                              !.thread[t].result = calls.thread[t].value,
                              !.written[calls.thread[t].tmdb_id] =
                                  calls.thread[t].value]
    /\ UNCHANGED <<cf, content, profile, ret, train, ingest>>

\* the caller has taken the returned value
PosterReturn(t) ==
    /\ calls.thread[t].pc = "done"
    /\ calls' = [calls EXCEPT !.thread[t] = NoCall]
    /\ UNCHANGED <<cf, content, profile, ret, server, train, ingest>>

InitPoster ==
    /\ cf = SomeCFModel
    /\ content \in EngineContentModels
    /\ profile = NoProfile
    /\ ret = NoRet
    /\ \E api_key \in BOOLEAN :
          server = [NoServer EXCEPT !.MODEL = TRUE, !.HYBRID = TRUE,
                                    !.TMDB = api_key, !.ENGINE = TRUE,
                                    !.phase = "up"]
    /\ calls = IdleCalls
    /\ train = NoTrain /\ ingest = NoIngest

NextPoster ==
    \/ \E t \in Threads, tmdb_id \in PosterIds : PosterCall(t, tmdb_id)
    \/ \E t \in Threads : PosterCheck(t)
    \/ \E t \in Threads : PosterRead(t)
    \/ \E t \in Threads : PosterClient(t)
    \/ \E t \in Threads, tmdb_answer \in TmdbAnswers : PosterLookup(t, tmdb_answer)
    \/ \E t \in Threads : PosterWrite(t)
    \/ \E t \in Threads : PosterReturn(t)

SpecPoster == InitPoster /\ [][NextPoster]_vars

\* C17: under every interleaving of _poster_url_for_tmdb calls no call ends
\* with an error, a finished call has returned None or the URL of its own id,
\* and the cache entry of an id is the value of the last write for that id,
\* which is None or the URL of that id
C17_PosterCallsAreSafe ==
    /\ \A t \in Threads :
          /\ calls.thread[t].error = "none"
          /\ calls.thread[t].pc = "done" =>
                calls.thread[t].result \in
                    {PosterNone, PosterUrl(calls.thread[t].tmdb_id)}
    /\ \A i \in PosterIds :
          /\ CacheHas(server.POSTER_CACHE, i) <=> calls.written[i] # PosterUnset
          /\ CacheHas(server.POSTER_CACHE, i) =>
                /\ CacheGet(server.POSTER_CACHE, i) = calls.written[i]
                /\ CacheGet(server.POSTER_CACHE, i) \in {PosterNone, PosterUrl(i)}
    /\ \A e \in server.POSTER_CACHE : e[1] \in PosterIds

\* two calls for the same id both missed the cache and both looked the id
\* up; the first stored None, the second has overwritten it with the URL
C17_Witness ==
    /\ \A t \in {1, 2} : /\ calls.thread[t].pc = "done"
                         /\ calls.thread[t].tmdb_id = TmdbOf(ContentIdOf[0])
    /\ calls.thread[1].result = PosterNone
    /\ calls.thread[2].result = PosterUrl(TmdbOf(ContentIdOf[0]))
    /\ CacheGet(server.POSTER_CACHE, TmdbOf(ContentIdOf[0]))
          = PosterUrl(TmdbOf(ContentIdOf[0]))

\* C28: once _POSTER_CACHE holds an entry for an id (a URL, or the None
\* stored after a failed lookup or a missing poster path) every later
\* sequential call for the id returns that entry without an external lookup,
\* so a failed lookup is never made again; and a call made without a
\* metadata client returns None and leaves the cache as it was
C28_CachedEntryIsFinal ==
    \A t \in Threads :
        (calls.thread[t].pc = "done" /\ ~calls.thread[t].overlapped) =>
            /\ calls.thread[t].entry_before # PosterUnset =>
                  /\ calls.thread[t].error = "none"
                  /\ calls.thread[t].result = calls.thread[t].entry_before
                  /\ ~calls.thread[t].looked_up
                  /\ ~calls.thread[t].wrote
                  /\ CacheGet(server.POSTER_CACHE, calls.thread[t].tmdb_id)
                        = calls.thread[t].entry_before
            /\ ~server.TMDB =>
                  /\ calls.thread[t].result = PosterNone
                  /\ ~calls.thread[t].looked_up
                  /\ ~calls.thread[t].wrote
                  /\ CacheHas(server.POSTER_CACHE, calls.thread[t].tmdb_id)
                        <=> calls.thread[t].entry_before # PosterUnset

\* a call that ran alone found the None of an earlier failed lookup in the
\* cache and returned it without a lookup, the client being configured
C28_Witness ==
    \E t \in Threads :
        /\ calls.thread[t].pc = "done" /\ ~calls.thread[t].overlapped
        /\ calls.thread[t].entry_before = PosterNone
        /\ calls.thread[t].result = PosterNone
        /\ ~calls.thread[t].looked_up
        /\ server.TMDB

\* ------------------------------------- every scoring call behind one caller
InitShared ==
    /\ cf \in EngineCFModels
    /\ content \in SimilarityContentModels
    /\ profile = NoProfile
    /\ ret = NoRet
    /\ server = NoServer /\ calls = NoCalls /\ train = NoTrain /\ ingest = NoIngest

NextShared ==
    \/ \E user_id \in UserIds, n \in -1 .. MaxN, exclude_rated \in BOOLEAN :
          Recommend(user_id, n, exclude_rated)
    \/ \E user_id \in UserIds, n \in -1 .. MaxN, exclude_rated \in BOOLEAN :
          HybridRecommend(user_id, n, exclude_rated)
    \/ \E ids \in SeedLists : ProfileFromMovieIds(ids)
    \/ \E candidates \in CandidateLists : SimilarityToProfile(candidates)
    \/ \E n \in -1 .. MaxN, xids \in SeedLists : RecommendFromProfile(n, xids)
    \/ Discard

SpecShared == InitShared /\ [][NextShared]_vars

RECURSIVE BuildIndexByRow(_)
BuildIndexByRow(keys) ==
    IF keys = <<>> THEN <<>>
    ELSE LET before == BuildIndexByRow(SubSeq(keys, 1, Len(keys) - 1))
             key == keys[Len(keys)]
         IN IF key \in DOMAIN before THEN before
            ELSE [x \in DOMAIN before \cup {key} |->
                    IF x = key THEN Len(keys) - 1 ELSE before[x]]

\* the dict built by "if key not in index: index[key] = len(index)" over the
\* keys in list order
RECURSIVE BuildIndex(_)
BuildIndex(keys) ==
    IF keys = <<>> THEN <<>>
    ELSE LET before == BuildIndex(SubSeq(keys, 1, Len(keys) - 1))
             key == keys[Len(keys)]
         IN IF key \in DOMAIN before THEN before
            ELSE [x \in DOMAIN before \cup {key} |->
                    IF x = key THEN Cardinality(DOMAIN before) ELSE before[x]]

\* build_mappings
BuildMappings(ratings) ==
    [user_index |-> BuildIndex([p \in DOMAIN ratings |-> ratings[p][1]]),
     item_index |-> BuildIndex([p \in DOMAIN ratings |-> ratings[p][2]])]

\* rated_items of build_sparse_matrix: for every user position the set of
\* item positions of its rows
RatedItems(ratings, user_index, item_index) ==
    [u \in {user_index[ratings[p][1]] : p \in DOMAIN ratings} |->
        {item_index[ratings[p][2]] : p \in {q \in DOMAIN ratings :
                                                user_index[ratings[q][1]] = u}}]

RECURSIVE SumOf(_, _)
SumOf(ratings, rows) ==
    IF rows = {} THEN 0
    ELSE LET p == CHOOSE q \in rows : TRUE
         IN ratings[p][3] + SumOf(ratings, rows \ {p})

\* the mean of the ratings of the given rows, global_mean without a row
MeanOf(ratings, rows) ==
    IF rows = {}
    THEN IF Len(ratings) = 0 THEN Fin(0)
         ELSE Rat(SumOf(ratings, DOMAIN ratings), Len(ratings))
    ELSE Rat(SumOf(ratings, rows), Cardinality(rows))

\* {idx: key for key, idx in index.items()}
InverseIndex(index) ==
    [i \in {index[x] : x \in DOMAIN index} |->
        CHOOSE x \in DOMAIN index : index[x] = i]

\* filter_sparse_users keeping the users with more than min_ratings rows
FilterSparseUsersAbove(ratings, min_ratings) ==
    IF min_ratings <= 1 THEN ratings
    ELSE SelectSeq(ratings,
                   LAMBDA row : Cardinality({p \in DOMAIN ratings :
                                               ratings[p][1] = row[1]}) > min_ratings)

\* filter_sparse_users
FilterSparseUsers(ratings, min_ratings) ==
    IF min_ratings <= 1 THEN ratings
    ELSE SelectSeq(ratings,
                   LAMBDA row : Cardinality({p \in DOMAIN ratings :
                                               ratings[p][1] = row[1]}) >= min_ratings)

\* k of train_svd without the floor of one under max_rank
SvdRankNoFloor(rank, num_users, num_items) ==
    MinInt(rank, MinInt(num_users, num_items) - 1)

\* k of train_svd
SvdRank(rank, num_users, num_items) ==
    MinInt(rank, MaxInt(1, MinInt(num_users, num_items) - 1))

\* the shape of svd.fit_transform(centered) for a matrix of the given shape
FitTransformShape(shape, k) == [rows |-> shape[1], cols |-> k]

\* the components of the transposed matrix
ComponentsShapeTransposed(shape, k) == [rows |-> k, cols |-> shape[1]]

\* the shape of svd.components_
ComponentsShape(shape, k) == [rows |-> k, cols |-> shape[2]]

\* main() of train_cf on the rows that load_ratings_csv returned
TrainMain ==
    /\ train.phase = "loaded"
    /\ \E ratings \in {FilterSparseUsers(train.source, train.min_ratings)} :
         IF ratings = <<>>
         THEN train' = [train EXCEPT !.phase = "failed", !.error = "ValueError"]
         ELSE \E m \in {BuildMappings(ratings)} :
              \E shape \in {<<Cardinality(DOMAIN m.user_index),
                              Cardinality(DOMAIN m.item_index)>>} :
              \E k \in {SvdRank(train.rank, shape[1], shape[2])} :
                IF k < 1
                THEN \* TruncatedSVD rejects n_components < 1
                     train' = [train EXCEPT !.phase = "failed",
                                            !.error = "InvalidParameterError",
                                            !.ratings = ratings, !.k = k]
                ELSE train' =
                       [train EXCEPT
                          !.phase = "saved",
                          !.ratings = ratings,
                          !.user_index = m.user_index,
                          !.item_index = m.item_index,
                          !.index_user = InverseIndex(m.user_index),
                          !.index_item = InverseIndex(m.item_index),
                          !.rated_items =
                              [u \in DOMAIN RatedItems(ratings, m.user_index,
                                                       m.item_index) |->
                                 SetToSortedSeq(RatedItems(ratings, m.user_index,
                                                           m.item_index)[u])],
                          !.user_means =
                              [u \in 0 .. (shape[1] - 1) |->
                                 MeanOf(ratings, {p \in DOMAIN ratings :
                                           m.user_index[ratings[p][1]] = u})],
                          !.item_means =
                              [i \in 0 .. (shape[2] - 1) |->
                                 MeanOf(ratings, {p \in DOMAIN ratings :
                                           m.item_index[ratings[p][2]] = i})],
                          !.global_mean = MeanOf(ratings, {}),
                          !.k = k,
                          !.user_factors = FitTransformShape(shape, k),
                          !.item_factors = ComponentsShape(shape, k),
                          !.artifact = "written"]
    /\ UNCHANGED <<cf, content, profile, ret, server, calls, ingest>>

\* the rating rows of the runs: two users, three movies, two rating values
TrainUsers == {"u1", "u2"}
TrainMovies == {"1", "2", "3"}
TrainRatings == {2, 4}

RatingLists ==
    UNION { [1 .. len -> TrainUsers \X TrainMovies \X TrainRatings] :
              len \in 0 .. MaxRatings }

\* MLR_MIN_RATINGS_PER_USER and MLR_SVD_RANK of the runs
MinRatingsValues == {1, 2}

\* MODEL_FILE before the run: no file, or the model of an earlier run
ArtifactsBefore == {"absent", "previous"}
RankValues == {0, 1, 2}

InitTrain ==
    /\ cf = SomeCFModel
    /\ content = NoContent
    /\ profile = NoProfile
    /\ ret = NoRet
    /\ server = NoServer /\ calls = NoCalls /\ ingest = NoIngest
    /\ \E source \in RatingLists, min_ratings \in MinRatingsValues,
          rank \in RankValues, artifact \in ArtifactsBefore :
          train = [NoTrain EXCEPT !.phase = "loaded", !.source = source,
                                  !.min_ratings = min_ratings, !.rank = rank,
                                  !.artifact = artifact]

NextTrain == TrainMain

SpecTrain == InitTrain /\ [][NextTrain]_vars

\* C19: in every model that training produces, item_factors has one column
\* per entry of item_index, user_factors one row per entry of user_index, and
\* the columns of user_factors and the rows of item_factors are the same k
C19_FactorShapesMatchIndexes ==
    train.phase = "saved" =>
        /\ train.item_factors.cols = Cardinality(DOMAIN train.item_index)
        /\ train.user_factors.rows = Cardinality(DOMAIN train.user_index)
        /\ train.user_factors.cols = train.item_factors.rows
        /\ train.user_factors.cols = train.k
        /\ train.k >= 1

\* a model with two users and three items was produced
C19_Witness ==
    /\ train.phase = "saved"
    /\ Cardinality(DOMAIN train.user_index) = 2
    /\ Cardinality(DOMAIN train.item_index) = 3
    /\ train.k = 1

\* the row of the first occurrence of a key in column c of the rating rows
FirstSeen(ratings, c, key) ==
    CHOOSE p \in DOMAIN ratings :
        /\ ratings[p][c] = key
        /\ \A q \in DOMAIN ratings : ratings[q][c] = key => p <= q

\* index maps the keys of column c onto 0 .. N-1 in first-seen order, and
\* inverse is its exact inverse
DenseFirstSeen(ratings, c, index, inverse) ==
    LET keys == {ratings[p][c] : p \in DOMAIN ratings}
        positions == 0 .. (Cardinality(keys) - 1)
    IN /\ DOMAIN index = keys
       /\ {index[x] : x \in keys} = positions
       /\ \A x, y \in keys :
             index[x] < index[y] <=>
                FirstSeen(ratings, c, x) < FirstSeen(ratings, c, y)
       /\ DOMAIN inverse = positions
       /\ \A x \in keys : inverse[index[x]] = x
       /\ \A i \in positions : index[inverse[i]] = i

\* C20: user_index and item_index give dense 0-based positions in first-seen
\* order (bijections onto 0..N-1), index_user and index_item are their exact
\* inverses, and rated_items holds valid user and item positions only
C20_DenseFirstSeenIndexes ==
    train.phase = "saved" =>
        /\ DenseFirstSeen(train.ratings, 1, train.user_index, train.index_user)
        /\ DenseFirstSeen(train.ratings, 2, train.item_index, train.index_item)
        /\ \A u \in DOMAIN train.rated_items :
              /\ u \in DOMAIN train.index_user
              /\ \A p \in DOMAIN train.rated_items[u] :
                    train.rated_items[u][p] \in DOMAIN train.index_item

\* a model was produced from rows whose first user and first movie are not
\* the smallest ids, with a user and a movie seen again later
C20_Witness ==
    /\ train.phase = "saved"
    /\ Len(train.ratings) = 3
    /\ train.ratings[1][1] = "u2" /\ train.ratings[2][1] = "u1"
    /\ train.ratings[3][1] = "u2"
    /\ train.ratings[1][2] = "3" /\ train.ratings[2][2] = "1"
    /\ train.ratings[3][2] = "3"
    /\ train.user_index["u2"] = 0 /\ train.item_index["1"] = 1

\* train_svd was called: the rows survived the filter
TrainSvdCalled ==
    \/ train.phase = "saved"
    \/ train.phase = "failed" /\ train.error = "InvalidParameterError"

\* the number of distinct keys in column c of the rows that are trained on
NumKeys(c) == Cardinality({train.ratings[p][c] : p \in DOMAIN train.ratings})

\* C21 (as stated): for every requested rank and every matrix shape the rank
\* used by train_svd is min(requested_rank, min(num_users, num_items) - 1),
\* a single user or a single item included
C21_RankIsMinOfRequestedAndShape ==
    TrainSvdCalled =>
        train.k = MinInt(train.rank, MinInt(NumKeys(1), NumKeys(2)) - 1)

\* C21 (amended): with at least two users and two items the rank used by
\* train_svd is min(requested_rank, min(num_users, num_items) - 1); with a
\* single user or a single item it is min(requested_rank, 1)
C21_RankWithFloorOfOne ==
    TrainSvdCalled =>
        IF MinInt(NumKeys(1), NumKeys(2)) >= 2
        THEN train.k = MinInt(train.rank, MinInt(NumKeys(1), NumKeys(2)) - 1)
        ELSE train.k = MinInt(train.rank, 1)

\* a model of rank one was trained on the rows of a single user who rated
\* two movies, with a requested rank of two
C21_Witness ==
    /\ train.phase = "saved"
    /\ NumKeys(1) = 1 /\ NumKeys(2) = 2
    /\ train.rank = 2
    /\ train.k = 1

\* the rows of the input whose user has at least min_ratings rows in the
\* input, in input order
RowsOfFrequentUsers ==
    LET kept == {p \in DOMAIN train.source :
                   Cardinality({q \in DOMAIN train.source :
                                  train.source[q][1] = train.source[p][1]})
                       >= train.min_ratings}
        order == SetToSortedSeq(kept)
    IN [i \in DOMAIN order |-> train.source[order[i]]]

\* C22: training keeps exactly the rating triples of the users that have at
\* least min_ratings triples in the input, in input order; when no triple
\* survives it fails with a data error, no mapping is built and the model
\* artifact is neither written nor overwritten
C22_FilterThenFailWhenEmpty ==
    train.phase \in {"saved", "failed"} =>
        IF RowsOfFrequentUsers = <<>>
        THEN /\ train.phase = "failed"
             /\ train.error = "ValueError"
             /\ train.user_index = <<>> /\ train.item_index = <<>>
             /\ train.index_user = <<>> /\ train.index_item = <<>>
             /\ train.artifact \in ArtifactsBefore
        ELSE /\ train.ratings = RowsOfFrequentUsers
             /\ train.error # "ValueError"

\* two users with one rating each and a minimum of two: the run failed and
\* the model of the earlier run is still in place
C22_Witness ==
    /\ train.phase = "failed" /\ train.error = "ValueError"
    /\ Len(train.source) = 2
    /\ train.source[1][1] # train.source[2][1]
    /\ train.min_ratings = 2
    /\ train.artifact = "previous"

\* ------------------------------------------------------ source file readers
\* str.strip() on the cells of the files
Strip(text) ==
    CASE text = " u2 " -> "u2"
      [] text = " 1 " -> "1"
      [] text = " 2 " -> "2"
      [] text = " Alien " -> "Alien"
      [] text = "  " -> ""
      [] OTHER -> text

\* the cells that float() converts, with their values
FloatLiterals == [text \in {"4", "2.0"} |-> IF text = "4" THEN 4 ELSE 2]

\* the cells that int() converts, with their values
IntLiterals ==
    [text \in {"1", "2", "3"} |->
        CASE text = "1" -> 1 [] text = "2" -> 2 [] OTHER -> 3]

\* the value of row.get(name) when the column is absent or the row is short
CellNone == "None"

\* row.get(name) of a csv.DictReader row
RowGet(header, row, name) ==
    IF \E c \in DOMAIN header : header[c] = name
    THEN LET c == CHOOSE d \in DOMAIN header : header[d] = name
         IN IF c <= Len(row) THEN row[c] ELSE CellNone
    ELSE CellNone

\* a or b
Or(a, b) == IF a \notin {CellNone, ""} THEN a ELSE b

\* the rating triple of one row of ratings.csv, <<>> for a skipped row
RatingOfRow(header, row) ==
    LET user_id == Strip(Or(Or(RowGet(header, row, "user_id"),
                               RowGet(header, row, "userId")), ""))
        movie_id == Strip(Or(Or(RowGet(header, row, "movie_id"),
                                RowGet(header, row, "movieId")), ""))
        rating_raw == Strip(Or(RowGet(header, row, "rating"), ""))
    IN IF user_id = "" \/ movie_id = "" \/ rating_raw = "" THEN <<>>
       ELSE IF rating_raw \notin DOMAIN FloatLiterals THEN <<>>
       ELSE << <<user_id, movie_id, FloatLiterals[rating_raw]>> >>

\* the list that the loop of load_ratings_csv builds
RECURSIVE RatingsOfRows(_, _)
RatingsOfRows(header, rows) ==
    IF rows = <<>> THEN <<>>
    ELSE RatingsOfRows(header, SubSeq(rows, 1, Len(rows) - 1))
            \o RatingOfRow(header, rows[Len(rows)])

\* load_ratings_csv(RATINGS_FILE)
LoadRatingsCsv ==
    /\ train.phase = "file"
    /\ IF ~train.file.exists
       THEN train' = [train EXCEPT !.phase = "failed",
                                   !.error = "FileNotFoundError"]
       ELSE IF train.file.header = <<>>
       THEN train' = [train EXCEPT !.phase = "failed", !.error = "ValueError"]
       ELSE train' = [train EXCEPT
                         !.phase = "loaded",
                         !.source = RatingsOfRows(train.file.header,
                                                  train.file.rows)]
    /\ UNCHANGED <<cf, content, profile, ret, server, calls, ingest>>

\* _parse_title_year: the title and the year, "" for no year
ParseTitleYear(raw_title) ==
    IF Strip(raw_title) = "Heat (1995)" THEN <<"Heat", "1995">>
    ELSE <<Strip(raw_title), "">>

\* one row of the loop of _iter_movies: skipped, a ValueError of int(), or
\* the yielded movie
IterMoviesRow(header, row) ==
    LET movie_id_raw == Strip(Or(Or(RowGet(header, row, "movieId"),
                                    RowGet(header, row, "movie_id")), ""))
        title_raw == Strip(Or(RowGet(header, row, "title"), ""))
    IN IF movie_id_raw = "" \/ title_raw = ""
       THEN [k |-> "skip", movie_id |-> 0, title |-> "", year |-> ""]
       ELSE IF movie_id_raw \notin DOMAIN IntLiterals
       THEN [k |-> "ValueError", movie_id |-> 0, title |-> "", year |-> ""]
       ELSE [k |-> "yield", movie_id |-> IntLiterals[movie_id_raw],
             title |-> ParseTitleYear(title_raw)[1],
             year |-> ParseTitleYear(title_raw)[2]]

\* --------------------------------------------------------------- ingest job
\* ingest() up to the loop: engine, tables, client, the movies file, the
\* rows of movielens_tmdb_map and the failure log
IngestStart ==
    /\ ingest.phase = "start"
    /\ \E db_url, api_key \in BOOLEAN :
         IF ~db_url \/ ~api_key
         THEN ingest' = [ingest EXCEPT !.phase = "failed",
                                       !.error = "RuntimeError"]
         ELSE IF ~ingest.file.exists
         THEN ingest' = [ingest EXCEPT !.phase = "failed",
                                       !.error = "FileNotFoundError"]
         ELSE ingest' =
                [ingest EXCEPT
                    !.phase = "running",
                    !.mapped = DOMAIN ingest.table,
                    !.mapped_tmdb = {ingest.table[m] : m \in DOMAIN ingest.table}]
    /\ UNCHANGED <<cf, content, profile, ret, server, calls, train>>

\* what TMDB answers to the search and to the bundle requests of one movie
SearchAnswers ==
    {[search |-> "request_error", tmdb_id |-> 0, bundle |-> "none"],
     [search |-> "no_results", tmdb_id |-> 0, bundle |-> "none"],
     [search |-> "missing_tmdb_id", tmdb_id |-> 0, bundle |-> "none"]}
    \cup [search : {"hit"}, tmdb_id : {TmdbOf(1), TmdbOf(2)},
          bundle : {"ok", "request_error"}]

\* a failure log that records the request errors only
WriteFailureErrorsOnly(movie_id, reason) ==
    IF ingest.failures_path /\ reason = "request_error"
    THEN Append(ingest.failures, <<movie_id, reason>>)
    ELSE ingest.failures

\* failures_handle after _write_failure, when there is a handle
WriteFailure(movie_id, reason) ==
    IF ingest.failures_path
    THEN Append(ingest.failures, <<movie_id, reason>>)
    ELSE ingest.failures

\* the insert into movielens_tmdb_map with ON CONFLICT (movielens_movie_id)
\* DO UPDATE: the new table, or <<>> when the unique constraint on tmdb_id
\* rejects the row
MapUpsert(table, movie_id, tmdb_id) ==
    IF \E m \in DOMAIN table : m # movie_id /\ table[m] = tmdb_id
    THEN <<>>
    ELSE [m \in DOMAIN table \cup {movie_id} |->
            IF m = movie_id THEN tmdb_id ELSE table[m]]

\* the end of one pass of the loop that did not break: the position moves on
NextRow == [ingest EXCEPT !.pos = ingest.pos + 1]

\* one pass of the loop of ingest(): the next row of the movies file, the
\* TMDB requests for it and the two inserts
IngestMovie ==
    /\ ingest.phase = "running"
    /\ ingest.pos < Len(ingest.file.rows)
    /\ \E r \in {IterMoviesRow(ingest.file.header,
                                ingest.file.rows[ingest.pos + 1])} :
         IF r.k = "skip" THEN ingest' = NextRow
         ELSE IF r.k = "ValueError"
         THEN ingest' = [ingest EXCEPT !.phase = "failed",
                                       !.error = "ValueError"]
         ELSE IF r.movie_id \in ingest.mapped
         THEN ingest' = [NextRow EXCEPT
                            !.yielded = Append(ingest.yielded, r.movie_id)]
         ELSE \E a \in SearchAnswers :
              \E seen \in {[NextRow EXCEPT
                               !.yielded = Append(ingest.yielded, r.movie_id),
                               !.searched = Append(ingest.searched, r.movie_id)]} :
                IF a.search = "request_error"
                   \/ (a.search = "hit" /\ a.tmdb_id \notin ingest.mapped_tmdb
                          /\ a.bundle = "request_error")
                THEN ingest' = [seen EXCEPT
                                   !.errors = ingest.errors + 1,
                                   !.events = Append(ingest.events,
                                       <<r.movie_id, "request_error">>),
                                   !.failures = WriteFailure(r.movie_id,
                                                             "request_error")]
                ELSE IF a.search \in {"no_results", "missing_tmdb_id"}
                THEN ingest' = [seen EXCEPT
                                   !.events = Append(ingest.events,
                                                     <<r.movie_id, a.search>>),
                                   !.failures = WriteFailure(r.movie_id, a.search)]
                ELSE IF a.tmdb_id \in ingest.mapped_tmdb
                THEN ingest' = [seen EXCEPT
                                   !.events = Append(ingest.events,
                                       <<r.movie_id, "mapped_tmdb">>)]
                ELSE IF MapUpsert(ingest.table, r.movie_id, a.tmdb_id) = <<>>
                THEN ingest' = [seen EXCEPT
                                   !.phase = "failed",
                                   !.error = "IntegrityError",
                                   !.events = Append(ingest.events,
                                       <<r.movie_id, "IntegrityError">>)]
                ELSE ingest' =
                       [seen EXCEPT
                           !.tmdb_movies = ingest.tmdb_movies \cup {a.tmdb_id},
                           !.table = MapUpsert(ingest.table, r.movie_id,
                                               a.tmdb_id),
                           !.mapped_tmdb = ingest.mapped_tmdb \cup {a.tmdb_id},
                           !.written = Append(ingest.written,
                                              <<r.movie_id, a.tmdb_id>>),
                           !.events = Append(ingest.events,
                                             <<r.movie_id, "written">>),
                           !.count = ingest.count + 1,
                           !.phase = IF ingest.limit # 0
                                        /\ ingest.count + 1 >= ingest.limit
                                     THEN "break" ELSE "running"]
    /\ UNCHANGED <<cf, content, profile, ret, server, calls, train>>

\* ingest() after the loop: the failure log is closed and the counts printed
IngestEnd ==
    /\ \/ ingest.phase = "break"
       \/ ingest.phase = "running" /\ ingest.pos = Len(ingest.file.rows)
    /\ ingest' = [ingest EXCEPT !.phase = "done"]
    /\ UNCHANGED <<cf, content, profile, ret, server, calls, train>>

\* ---- the batch jobs and their source files: specification
\* the header rows of ratings.csv: the two naming conventions, and none
RatingHeaders ==
    {<<"user_id", "movie_id", "rating">>,
     <<"userId", "movieId", "rating", "timestamp">>}

\* the data rows of ratings.csv: two well-formed rows, a short row, a blank
\* user, an empty rating and a rating that is no number
RatingRows ==
    {<<"u1", "1", "4">>, <<" u2 ", " 2 ", "2.0">>, <<"u1", "3">>,
     <<"  ", "1", "4">>, <<"u2", "3", "">>, <<"u2", "1", "abc">>}

\* the header rows of movies.csv
MovieHeaders == {<<"movieId", "title", "genres">>, <<"movie_id", "title">>}

\* the data rows of movies.csv: two well-formed rows, a short row and an id
\* that is no integer
MovieRows ==
    {<<" 1 ", "Heat (1995)">>, <<"3", " Alien ">>, <<"3">>, <<"x1", "Alien">>}

FileRows(kinds) == UNION {[1 .. len -> kinds] : len \in 0 .. MaxRows}

\* the rows of movielens_tmdb_map before the run
TablesBefore == {<<>>, 3 :> TmdbOf(2)}

\* --limit of the runs, 0 for none
LimitValues == {0, 1, 2}

InitBatch ==
    /\ cf = SomeCFModel
    /\ content = NoContent
    /\ profile = NoProfile
    /\ ret = NoRet
    /\ server = NoServer /\ calls = NoCalls
    /\ \/ /\ ingest = NoIngest
          /\ \/ \E header \in RatingHeaders, rows \in FileRows(RatingRows) :
                  train = [NoTrain EXCEPT
                              !.phase = "file", !.min_ratings = 1, !.rank = 1,
                              !.file = [exists |-> TRUE, header |-> header,
                                        rows |-> rows]]
             \/ \E exists \in BOOLEAN :
                  train = [NoTrain EXCEPT !.phase = "file",
                                          !.file.exists = exists]
       \/ /\ train = NoTrain
          /\ \E exists \in BOOLEAN, header \in MovieHeaders,
                rows \in FileRows(MovieRows), table \in TablesBefore,
                limit \in LimitValues, failures_path \in BOOLEAN :
                  ingest = [NoIngest EXCEPT
                               !.phase = "start", !.table = table,
                               !.table_before = table,
                               !.limit = limit,
                               !.failures_path = failures_path,
                               !.file = [exists |-> exists, header |-> header,
                                         rows |-> IF exists THEN rows ELSE <<>>]]

NextBatch ==
    \/ LoadRatingsCsv
    \/ TrainMain
    \/ IngestStart
    \/ IngestMovie
    \/ IngestEnd

SpecBatch == InitBatch /\ [][NextBatch]_vars

\* ---- the batch jobs and their source files: properties
\* the stripped cell of a row under either of two column names, "" when the
\* row has neither
Field(header, row, snake, camel) ==
    LET present == {RowGet(header, row, snake), RowGet(header, row, camel)}
                       \ {CellNone, ""}
    IN IF present = {} THEN "" ELSE Strip(CHOOSE cell \in present : TRUE)

\* a row of ratings.csv with a user, a movie and a rating that is a number
WellFormedRating(header, row) ==
    /\ Field(header, row, "user_id", "userId") # ""
    /\ Field(header, row, "movie_id", "movieId") # ""
    /\ Field(header, row, "rating", "rating") \in DOMAIN FloatLiterals

\* a row of movies.csv with an integer id and a title
WellFormedMovie(header, row) ==
    /\ Field(header, row, "movie_id", "movieId") \in DOMAIN IntLiterals
    /\ Field(header, row, "title", "title") # ""

\* the well-formed ones of the first pos rows of a file, in file order, each
\* converted by Value
Kept(file, pos, WellFormed(_, _), Value(_, _)) ==
    LET order == SetToSortedSeq({p \in 1 .. pos :
                                   WellFormed(file.header, file.rows[p])})
    IN [i \in DOMAIN order |-> Value(file.header, file.rows[order[i]])]

RatingValue(header, row) ==
    <<Field(header, row, "user_id", "userId"),
      Field(header, row, "movie_id", "movieId"),
      FloatLiterals[Field(header, row, "rating", "rating")]>>

MovieValue(header, row) ==
    IntLiterals[Field(header, row, "movie_id", "movieId")]

\* load_ratings_csv returned the well-formed rows of a file with a header,
\* in file order
RatingRowsAreSkippedOrKept ==
    (train.file.exists /\ train.file.header # <<>> /\ train.phase # "file") =>
        /\ train.source = Kept(train.file, Len(train.file.rows),
                               WellFormedRating, RatingValue)
        /\ train.phase = "failed" => train.source = <<>>

\* the ingest job was handed the well-formed ones of the movie rows it has
\* read, in file order, and no row made it fail
MovieRowsAreSkippedOrKept ==
    ingest.phase \in {"running", "break", "done", "failed"} =>
        /\ ingest.error # "ValueError"
        /\ ingest.error = "none" =>
              ingest.yielded = Kept(ingest.file, ingest.pos,
                                    WellFormedMovie, MovieValue)

\* C23: reading a source file never aborts on a malformed row:
\* load_ratings_csv accepts either header convention and skips every row with
\* a missing field or an unparsable value, keeping the well-formed rows
\* before and after it in order, and so does the reading of the movie rows by
\* the ingest job
C23_MalformedRowsAreSkipped ==
    /\ RatingRowsAreSkippedOrKept
    /\ MovieRowsAreSkippedOrKept

\* the run is past its startup
IngestLooping == ingest.phase \in {"running", "break", "done", "failed"}

\* no tmdb id was written for two MovieLens ids, counting the rows the
\* mapping held before the run, and the mapping has one MovieLens id per
\* tmdb id
OneMovielensIdPerTmdbId ==
    /\ \A p, q \in DOMAIN ingest.written :
          ingest.written[p][2] = ingest.written[q][2] =>
              ingest.written[p][1] = ingest.written[q][1]
    /\ \A p \in DOMAIN ingest.written : \A m \in DOMAIN ingest.table_before :
          ingest.table_before[m] = ingest.written[p][2] =>
              m = ingest.written[p][1]
    /\ \A m, k \in DOMAIN ingest.table :
          ingest.table[m] = ingest.table[k] => m = k
    /\ ingest.error # "IntegrityError"

\* no MovieLens id that the mapping held before the run was searched for
MappedIdsAreNotSearched ==
    Range(ingest.searched) \cap DOMAIN ingest.table_before = {}

\* the searches that ended in a request error or without a result
IsSkippedSearch(entry) == entry[2] \in {"request_error", "no_results"}

\* a search that ends in a request error or without a result leaves the run
\* in its loop, at the next row
SkippedSearchKeepsRunning ==
    [][(Len(ingest'.events) > Len(ingest.events)
          /\ IsSkippedSearch(ingest'.events[Len(ingest'.events)])) =>
            /\ ingest'.phase = "running"
            /\ ingest'.pos = ingest.pos + 1
            /\ ingest'.table = ingest.table]_vars

\* a positive limit bounds the number of movies written
WrittenWithinLimit ==
    /\ ingest.count = Len(ingest.written)
    /\ ingest.limit > 0 => ingest.count <= ingest.limit

\* C29 (as stated): in an ingest run no tmdb id is written to the mapping for
\* two MovieLens ids, no MovieLens id mapped at the start is looked up again,
\* a request error or an empty search result for a movie is logged and
\* skipped without stopping the run, and the number of movies written never
\* exceeds a positive limit
C29_IngestKeepsMappingAndLogsSkips ==
    /\ [](IngestLooping =>
            /\ OneMovielensIdPerTmdbId
            /\ MappedIdsAreNotSearched
            /\ WrittenWithinLimit
            /\ SelectSeq(ingest.failures, IsSkippedSearch)
                  = SelectSeq(ingest.events, IsSkippedSearch))
    /\ SkippedSearchKeepsRunning

\* C29 (amended): as stated, except that a request error or an empty search
\* result is written to the failure log when the run has a failure log, and
\* is skipped without a record when it has none
C29_IngestKeepsMappingAndLogsSkipsIfAsked ==
    /\ [](IngestLooping =>
            /\ OneMovielensIdPerTmdbId
            /\ MappedIdsAreNotSearched
            /\ WrittenWithinLimit
            /\ SelectSeq(ingest.failures, IsSkippedSearch)
                  = IF ingest.failures_path
                    THEN SelectSeq(ingest.events, IsSkippedSearch)
                    ELSE <<>>)
    /\ SkippedSearchKeepsRunning

\* a run with a failure log and a limit of one went on after a request
\* error and after an empty search result, logged both, wrote the third
\* movie and stopped at the limit
C29_Witness ==
    /\ ingest.phase = "done"
    /\ ingest.failures_path /\ ingest.limit = 1
    /\ Len(ingest.events) = 3
    /\ ingest.events[1][2] = "request_error"
    /\ ingest.events[2][2] = "no_results"
    /\ ingest.events[3][2] = "written"
    /\ Len(ingest.failures) = 2
    /\ ingest.count = 1

====
